---- MODULE Spec2Model ----
(***************************************************************************)
(* Historical snapshot processing of the HuggingFace models table:         *)
(* process_historical_data of hf_scraper/src/clean_models_data.py (Spec,   *)
(* AbortSpec), download_historical_models_data of                          *)
(* l3-data-pipelines/pipeline/src/downloadModelsData.py (IngestSpec) and   *)
(* the three engines of l3-data-pipelines/pipeline/scratch (ScratchSpec);  *)
(* and, of the collection scripts, scrape_profiles and                     *)
(* retry_failed_profiles of hf_scraper/src/download_hf_profiles.py         *)
(* (ProfilesSpec) and get_hf_models of l2-collecting-data/get_hf_models.py *)
(* (ModelsSpec, ModelsLive).                                               *)
(*                                                                         *)
(* The state holds file names and model ids as strings; Chars gives the    *)
(* characters of a string, and the glob, the regular expression and        *)
(* SPLIT_PART are computed on the characters.  An SQL value that may be    *)
(* NULL is <<>> (NULL) or <<v>>.  An SQL table is a sequence of rows (a    *)
(* bag with a physical order).                                             *)
(***************************************************************************)
EXTENDS Integers, Sequences, FiniteSets, TLC

VARIABLES
    directory,              \* data_dir: file name -> rows of the snapshot file
    output_path,            \* argument: TRUE when an author-level path is given
    model_output_path,      \* argument: TRUE when a model-level path is given
    pc,                     \* position in process_historical_data
    error,                  \* the exception that ended the run, or NoError
    parquet_files,          \* sorted(data_dir.glob("models-*.parquet"))
    all_snapshots,          \* TEMP TABLE all_snapshots
    daily_model_downloads,  \* TEMP TABLE daily_model_downloads
    author_daily_downloads, \* TEMP TABLE author_daily_downloads
    model_file,             \* the file at model_output_path: NotWritten or a table
    author_file,            \* the file at output_path: NotWritten or a table
    \* download_historical_models_data
    remote,                 \* the versions of the remote dataset, oldest first
    head,                   \* the number of versions published so far
    store,                  \* historical_dir: file name -> file
    run,                    \* the number of runs started
    ipc,                    \* position in download_historical_models_data
    days_back,              \* argument of the run
    commits,                \* the listing of the run, newest first
    relevant_commits,       \* the commits that name a models file
    position,               \* the place of the loop in relevant_commits
    seen_hashes,            \* the hashes seen in the run
    downloaded_files,       \* the paths the run returns
    counters,               \* the four counters of the run
    hub_downloads,          \* the files hf_hub_download fetched in the run
    failures,               \* the versions with a raised attempt in the run
    faults,                 \* the attempts that the network or the disk failed
    store_at_start,         \* historical_dir when the run started
    previous_run,           \* arguments, listing and failures of the run before
    listing,                \* how the run obtained its list of commits
    \* the three scratch engines of l3-data-pipelines/pipeline/scratch
    input_dir,              \* the directory of snapshot files they start from
    csv_file,               \* the consolidated CSV, NULL before it is written
    pandas_result,          \* the table of the pandas engine, NULL before
    postgres_result,        \* the table of the PostgreSQL engine, NULL before
    duckdb_result,          \* the table of the DuckDB engine, NULL before
    \* scrape_profiles and retry_failed_profiles of download_hf_profiles.py
    authors,                \* the rows (author, total_downloads) to scrape
    ppc,                    \* the function that runs and its position
    pidx,                   \* the place of the loop in its list
    profiles,               \* the names read from the retry file
    results,                \* results['success'] and results['retry']
    output_file,            \* the lines of the output JSONL file
    retry_file,             \* the text of the retry file, NULL when absent
    new_retry_file,         \* the text of the new retry file, NULL when absent
    files_before,           \* both files when retry_failed_profiles started
    \* get_hf_models of l2-collecting-data/get_hf_models.py
    n_arg,                  \* the argument n
    available,              \* the number of models that match on the server
    remaining,              \* remaining
    offset,                 \* offset
    models,                 \* models, batch by batch
    responses,              \* what the API answered to each request
    mpc,                    \* position in get_hf_models
    models_file             \* the JSONL file written, NULL before

engine_vars == <<directory, output_path, model_output_path, pc, error,
                 parquet_files, all_snapshots, daily_model_downloads,
                 author_daily_downloads, model_file, author_file>>

ingestor_vars == <<remote, head, store, run, ipc, days_back, commits,
                   relevant_commits, position, seen_hashes, downloaded_files,
                   counters, hub_downloads, failures, faults, store_at_start,
                   previous_run, listing>>

scratch_vars == <<input_dir, csv_file, pandas_result, postgres_result,
                  duckdb_result>>

profile_vars == <<authors, ppc, pidx, profiles, results, output_file,
                  retry_file, new_retry_file, files_before>>

models_vars == <<n_arg, available, remaining, offset, models, responses, mpc,
                 models_file>>

vars == <<engine_vars, ingestor_vars, scratch_vars, profile_vars, models_vars>>

-----------------------------------------------------------------------------
(* Bounds of the model.                                                    *)

MaxFiles == 3        \* snapshot files in the directory
MaxCount == 2        \* largest counter value in a snapshot row
MaxVersions == 2     \* versions in the remote history
MaxContents == 2     \* distinct contents of the remote files
MaxRuns == 2         \* runs of the ingestor
MaxFaults == 1       \* attempts that fail

-----------------------------------------------------------------------------
(* SQL NULL and three-valued arithmetic.                                   *)

NULL == <<>>
Val(v) == <<v>>
IsNull(x) == x = NULL
Get(x) == x[1]

\* a - b of SQL: NULL when either operand is NULL
Minus(a, b) == IF IsNull(a) \/ IsNull(b) THEN NULL ELSE Val(Get(a) - Get(b))

RECURSIVE SumSeq(_)
\* sum of a sequence of integers
SumSeq(s) == IF s = <<>> THEN 0 ELSE Head(s) + SumSeq(Tail(s))

\* the non-NULL values of a sequence of nullable values, unwrapped
NonNull(s) == LET F[i \in 0..Len(s)] ==
                    IF i = 0 THEN <<>>
                    ELSE IF IsNull(s[i]) THEN F[i-1] ELSE Append(F[i-1], Get(s[i]))
              IN F[Len(s)]

\* SUM(x) of SQL over a non-empty group: NULL values are skipped, and the
\* result is NULL when every value is NULL
SqlSum(s) == IF NonNull(s) = <<>> THEN NULL ELSE Val(SumSeq(NonNull(s)))

\* AVG(x) of SQL, kept exact as the pair <<sum, count>> of the non-NULL values
SqlAvg(s) == IF NonNull(s) = <<>> THEN NULL
             ELSE Val(<<SumSeq(NonNull(s)), Len(NonNull(s))>>)

-----------------------------------------------------------------------------
(* Characters and strings.                                                 *)

Digits == {"0", "1", "2", "3", "4", "5", "6", "7", "8", "9"}

\* the characters used, in ASCII order
Alphabet == <<" ", "-", ".", "/", "0", "1", "2", "3", "4", "5", "6", "7", "8", "9",
              "A", "B", "C", "D", "E", "F", "G", "H", "I", "J", "K", "L", "M",
              "N", "O", "P", "Q", "R", "S", "T", "U", "V", "W", "X", "Y", "Z",
              "a", "b", "c", "d", "e", "f", "g", "h", "i", "j", "k", "l", "m",
              "n", "o", "p", "q", "r", "s", "t", "u", "v", "w", "x", "y", "z">>

Ord(c) == CHOOSE i \in 1..Len(Alphabet) : Alphabet[i] = c

DigitVal(c) == Ord(c) - Ord("0")

RECURSIVE StrLess(_, _)
\* s < t of Python strings (lexicographic by code point)
StrLess(s, t) ==
    IF t = <<>> THEN FALSE
    ELSE IF s = <<>> THEN TRUE
    ELSE IF Head(s) # Head(t) THEN Ord(Head(s)) < Ord(Head(t))
    ELSE StrLess(Tail(s), Tail(t))

StartsWith(s, p) == Len(s) >= Len(p) /\ SubSeq(s, 1, Len(p)) = p
EndsWith(s, p) == Len(s) >= Len(p) /\ SubSeq(s, Len(s) - Len(p) + 1, Len(s)) = p

\* int(s) of a string of digits
RECURSIVE ToInt(_)
ToInt(s) == IF s = <<>> THEN 0
            ELSE 10 * ToInt(SubSeq(s, 1, Len(s) - 1)) + DigitVal(s[Len(s)])

ModelsPrefix == <<"m", "o", "d", "e", "l", "s", "-">>
ParquetExt == <<".", "p", "a", "r", "q", "u", "e", "t">>
CsvExt == <<".", "c", "s", "v">>
Dash == <<"-">>

\* the characters of the strings of the model
Chars(s) ==
    CASE s = "models-20250101-510957d.parquet" ->
            ModelsPrefix \o <<"2","0","2","5","0","1","0","1">> \o Dash
              \o <<"5","1","0","9","5","7","d">> \o ParquetExt
      [] s = "models-20250102-a1b2c3d.parquet" ->
            ModelsPrefix \o <<"2","0","2","5","0","1","0","2">> \o Dash
              \o <<"a","1","b","2","c","3","d">> \o ParquetExt
      [] s = "models-20250102-e4f5a6b.parquet" ->
            ModelsPrefix \o <<"2","0","2","5","0","1","0","2">> \o Dash
              \o <<"e","4","f","5","a","6","b">> \o ParquetExt
      [] s = "models-20250104-0c0ffee.parquet" ->
            ModelsPrefix \o <<"2","0","2","5","0","1","0","4">> \o Dash
              \o <<"0","c","0","f","f","e","e">> \o ParquetExt
      [] s = "models-latest.parquet" ->
            ModelsPrefix \o <<"l","a","t","e","s","t">> \o ParquetExt
      [] s = "models-2025-01-03.parquet" ->
            ModelsPrefix \o <<"2","0","2","5","-","0","1","-","0","3">> \o ParquetExt
      [] s = "models-20251345-abc1234.parquet" ->
            ModelsPrefix \o <<"2","0","2","5","1","3","4","5">> \o Dash
              \o <<"a","b","c","1","2","3","4">> \o ParquetExt
      [] s = "models-20250103-abc1234.csv" ->
            ModelsPrefix \o <<"2","0","2","5","0","1","0","3">> \o Dash
              \o <<"a","b","c","1","2","3","4">> \o CsvExt
      [] s = "entities-2025-01-01.parquet" ->
            <<"e","n","t","i","t","i","e","s","-","2","0","2","5","-","0","1",
              "-","0","1">> \o ParquetExt
      [] s = "models-20250101-510957d.csv" ->
            ModelsPrefix \o <<"2","0","2","5","0","1","0","1">> \o Dash
              \o <<"5","1","0","9","5","7","d">> \o CsvExt
      [] s = "models-20250102-a1b2c3d.csv" ->
            ModelsPrefix \o <<"2","0","2","5","0","1","0","2">> \o Dash
              \o <<"a","1","b","2","c","3","d">> \o CsvExt
      [] s = "models-20250102-e4f5a6b.csv" ->
            ModelsPrefix \o <<"2","0","2","5","0","1","0","2">> \o Dash
              \o <<"e","4","f","5","a","6","b">> \o CsvExt
      [] s = "models-20250104-0c0ffee.csv" ->
            ModelsPrefix \o <<"2","0","2","5","0","1","0","4">> \o Dash
              \o <<"0","c","0","f","f","e","e">> \o CsvExt
      [] s = "a/x" -> <<"a", "/", "x">>
      [] s = "a/y" -> <<"a", "/", "y">>
      [] s = "b/z" -> <<"b", "/", "z">>
      [] s = "solo" -> <<"s", "o", "l", "o">>
      [] s = "/o" -> <<"/", "o">>
      [] s = "a" -> <<"a">>
      [] s = "b" -> <<"b">>
      [] s = "" -> <<>>

\* the strings Chars knows
Strings ==
    {"models-20250101-510957d.parquet", "models-20250102-a1b2c3d.parquet",
     "models-20250102-e4f5a6b.parquet", "models-20250104-0c0ffee.parquet",
     "models-latest.parquet", "models-2025-01-03.parquet",
     "models-20251345-abc1234.parquet", "models-20250103-abc1234.csv",
     "entities-2025-01-01.parquet",
     "models-20250101-510957d.csv", "models-20250102-a1b2c3d.csv",
     "models-20250102-e4f5a6b.csv", "models-20250104-0c0ffee.csv",
     "a/x", "a/y", "b/z", "solo", "/o", "a", "b", ""}

\* the string of a sequence of characters
Str(c) == CHOOSE s \in Strings : Chars(s) = c

-----------------------------------------------------------------------------
(* File names.                                                             *)

\* data_dir.glob("models-*.parquet"): the name starts with "models-" and
\* ends with ".parquet", the two parts not overlapping
GlobMatches(name) ==
    /\ Len(Chars(name)) >= Len(ModelsPrefix) + Len(ParquetExt)
    /\ StartsWith(Chars(name), ModelsPrefix)
    /\ EndsWith(Chars(name), ParquetExt)

\* the positions at which r'models-(\d{8})-' matches in the characters
\* filename
DateMatchAt(filename) ==
    { i \in 1..Len(filename) :
        /\ i + 15 <= Len(filename)
        /\ SubSeq(filename, i, i + 6) = ModelsPrefix
        /\ \A k \in 7..14 : filename[i + k] \in Digits
        /\ filename[i + 15] = "-" }

\* extract_date_from_filename: "YYYY-MM-DD" from the first match of
\* re.search(r'models-(\d{8})-', filename), or None (NULL) without a match
extract_date_from_filename(filename) ==
    IF DateMatchAt(Chars(filename)) = {} THEN NULL
    ELSE LET i == CHOOSE m \in DateMatchAt(Chars(filename)) :
                       \A n \in DateMatchAt(Chars(filename)) : m <= n
             date_str == SubSeq(Chars(filename), i + 7, i + 14)
         IN  Val(SubSeq(date_str, 1, 4) \o Dash \o SubSeq(date_str, 5, 6)
                   \o Dash \o SubSeq(date_str, 7, 8))

IsLeap(y) == (y % 4 = 0 /\ y % 100 # 0) \/ y % 400 = 0

DaysInMonth(y, m) ==
    IF m = 2 THEN (IF IsLeap(y) THEN 29 ELSE 28)
    ELSE IF m \in {4, 6, 9, 11} THEN 30 ELSE 31

\* year, month and day of a 'YYYY-MM-DD' string
DateParts(s) == <<ToInt(SubSeq(s, 1, 4)), ToInt(SubSeq(s, 6, 7)), ToInt(SubSeq(s, 9, 10))>>

\* '{date}'::DATE succeeds: the string names a day of the calendar
CastDateOk(s) ==
    LET p == DateParts(s)
    IN  /\ p[2] \in 1..12
        /\ p[3] \in 1..DaysInMonth(p[1], p[2])

\* the DATE value, as the integer YYYYMMDD (ordered as the calendar is)
CastDate(s) == LET p == DateParts(s) IN p[1] * 10000 + p[2] * 100 + p[3]

-----------------------------------------------------------------------------
(* Model ids.                                                              *)

Slash == "/"

\* the characters of s before the first '/', all of them when there is none
BeforeFirstSlash(s) ==
    IF \E i \in 1..Len(s) : s[i] = Slash
    THEN SubSeq(s, 1, (CHOOSE i \in 1..Len(s) :
                          s[i] = Slash /\ \A j \in 1..(i - 1) : s[j] # Slash) - 1)
    ELSE s

\* SPLIT_PART as if an id without '/' had no first part
MutSplitPartEmptyWithoutSeparator(id) ==
    IF \E i \in 1..Len(Chars(id)) : Chars(id)[i] = Slash
    THEN Str(BeforeFirstSlash(Chars(id)))
    ELSE ""

\* SPLIT_PART(id, '/', 1): the text before the first '/', the whole string
\* when it holds no '/'
SplitPart1(id) == Str(BeforeFirstSlash(Chars(id)))

-----------------------------------------------------------------------------
(* The inputs: snapshot files and their rows.                              *)

\* file names that can be found in the historical directory
N0101 == "models-20250101-510957d.parquet"
N0102 == "models-20250102-a1b2c3d.parquet"
\* a second version committed on the day of N0102
N0102b == "models-20250102-e4f5a6b.parquet"
\* no snapshot exists for 2025-01-03: a gap in the calendar
N0104 == "models-20250104-0c0ffee.parquet"
\* found by the glob, holds no date
NLatest == "models-latest.parquet"
\* found by the glob, the date not as 8 digits
NDashed == "models-2025-01-03.parquet"
\* 8 digits that are no day of the calendar
NBadDate == "models-20251345-abc1234.parquet"
\* a snapshot in the older format
NCsv == "models-20250103-abc1234.csv"
NEntities == "entities-2025-01-01.parquet"

DatedNames == {N0101, N0102, N0102b, N0104}
AllNames == DatedNames \cup {NLatest, NDashed, NBadDate, NCsv, NEntities}

\* model ids: with an author, without a separator, with an empty author,
\* empty, and NULL
IdAX == Val("a/x")
IdAY == Val("a/y")
IdBZ == Val("b/z")
IdSolo == Val("solo")
IdOrphan == Val("/o")
IdEmpty == Val("")
IdNull == NULL

\* values of (likes, trendingScore, downloads) in a row
Others1 == <<Val(1), Val(0), Val(1)>>
Others2 == <<Val(2), NULL, Val(0)>>
Others3 == <<NULL, Val(1), Val(2)>>

\* a row of a snapshot file (the columns process_historical_data reads)
Row(id, dl, o) ==
    [id |-> id, downloadsAllTime |-> dl, likes |-> o[1],
     trendingScore |-> o[2], downloads |-> o[3]]

\* no row for the id
Absent == <<>>

\* the table holding, for each id of the list ids that is not Absent in
\* cell, the row of that id
RowsOf(ids, cell) ==
    LET F[i \in 0..Len(ids)] ==
            IF i = 0 THEN <<>>
            ELSE IF cell[i] = Absent THEN F[i-1]
            ELSE Append(F[i-1], Row(ids[i], cell[i][1], cell[i][2]))
    IN  F[Len(ids)]

Counts == { Val(n) : n \in 1..MaxCount }

\* subsets of S with at most n elements
UpTo(S, n) == { T \in SUBSET S : Cardinality(T) <= n }

\* snapshot tables whose dates vary: a/x with any count, a/y with count 1
DateTables ==
    { RowsOf(<<IdAX, IdAY>>, <<c1, c2>>) :
        c1 \in {Absent} \cup (Counts \X {Others1}),
        c2 \in {Absent} \cup ({Val(1)} \X {Others1}) }

\* snapshot tables whose counters vary, NULL included: a/x with any
\* counters, a/y with count 1
CounterTables ==
    { RowsOf(<<IdAX, IdAY>>, <<c1, c2>>) :
        c1 \in {Absent} \cup ((Counts \cup {NULL}) \X {Others1, Others2, Others3}),
        c2 \in {Absent} \cup ({Val(1)} \X {Others1}) }

\* snapshot tables whose ids vary: at most two rows, every count n
IdTables(n) ==
    LET ids == <<IdAX, IdBZ, IdSolo, IdOrphan, IdEmpty, IdNull>>
    IN  { RowsOf(ids, [i \in 1..Len(ids) |->
                         IF i \in T THEN <<Val(n), Others1>> ELSE Absent]) :
            T \in UpTo(1..Len(ids), 2) }

\* directories of up to MaxFiles snapshots of distinct or equal dates
DateDirs == UNION { [S -> DateTables] : S \in UpTo(DatedNames, MaxFiles) \ {{}} }

\* two snapshots of consecutive days
CounterDirs == [{N0101, N0102} -> CounterTables]

IdDirs ==
    { [n \in {N0101, N0102} |-> IF n = N0101 THEN t1 ELSE t2] :
        t1 \in IdTables(1), t2 \in IdTables(MaxCount) }

\* directories of up to MaxFiles files of any name, the empty one included
NameDirs ==
    UNION { [S -> {<<Row(IdAX, Val(1), Others1)>>}] : S \in UpTo(AllNames, MaxFiles) }

\* the calls of process_historical_data(data_dir, output_path, model_output_path)
Inputs ==
    ((DateDirs \cup CounterDirs \cup IdDirs) \X {TRUE} \X {TRUE})
      \cup (NameDirs \X BOOLEAN \X BOOLEAN)

-----------------------------------------------------------------------------
(* The steps of process_historical_data.                                   *)

NoError == "none"
NoParquetFiles == "ValueError: No parquet files found"
NoValidDates == "ValueError: No valid dates extracted from filenames"
ConversionError == "ConversionException: date field value out of range"

RECURSIVE SortNames(_)
\* sorted(...) of a set of file names
SortNames(S) ==
    IF S = {} THEN <<>>
    ELSE LET m == CHOOSE x \in S : \A y \in S \ {x} : StrLess(Chars(x), Chars(y))
         IN  <<m>> \o SortNames(S \ {m})

\* sorted(data_dir.glob("models-*.parquet"))
GlobParquet(dir) == SortNames({ n \in DOMAIN dir : GlobMatches(n) })

\* the check of the file list left out
MutNoFilesFoundNever(files) == FALSE

\* len(parquet_files) == 0
NoFilesFound(files) == Len(files) = 0

\* the files for which a union query is built: `if date:`
Dated(files) == SelectSeq(files, LAMBDA n : ~IsNull(extract_date_from_filename(n)))

\* the WHERE clause of a union query
LoadFilter(r) ==
    /\ ~IsNull(r.id)
    /\ ~IsNull(r.downloadsAllTime)
    /\ SplitPart1(Get(r.id)) # ""

\* one union query: the rows of a file that pass the filter, each with the
\* date of the file and the author of the id
SnapshotRows(dir, n) ==
    LET date == CastDate(Get(extract_date_from_filename(n)))
        kept == SelectSeq(dir[n], LoadFilter)
    IN  [i \in 1..Len(kept) |->
            [snapshot_date |-> date,
             id |-> Get(kept[i].id),
             author |-> SplitPart1(Get(kept[i].id)),
             downloadsAllTime |-> kept[i].downloadsAllTime,
             likes |-> kept[i].likes,
             trendingScore |-> kept[i].trendingScore,
             downloads30 |-> kept[i].downloads]]

RECURSIVE UnionAll(_, _)
\* " UNION ALL ".join(union_queries)
UnionAll(dir, files) ==
    IF files = <<>> THEN <<>>
    ELSE SnapshotRows(dir, Head(files)) \o UnionAll(dir, Tail(files))

\* the counters of a run at its start
NoCounts == [successful_downloads |-> 0, skipped_existing |-> 0,
             skipped_no_change |-> 0, skipped_no_file |-> 0]

\* no run of download_historical_models_data takes place
IngestorIdle ==
    /\ remote = <<>>
    /\ head = 0
    /\ store = <<>>
    /\ run = 0
    /\ ipc = "idle"
    /\ days_back = NULL
    /\ commits = <<>>
    /\ relevant_commits = <<>>
    /\ position = 0
    /\ seen_hashes = {}
    /\ downloaded_files = <<>>
    /\ counters = NoCounts
    /\ hub_downloads = {}
    /\ failures = {}
    /\ faults = 0
    /\ store_at_start = <<>>
    /\ previous_run = NULL
    /\ listing = "none"

\* none of the scratch engines runs
ScratchIdle ==
    /\ input_dir = <<>>
    /\ csv_file = <<>>
    /\ pandas_result = <<>>
    /\ postgres_result = <<>>
    /\ duckdb_result = <<>>

\* neither scrape_profiles nor retry_failed_profiles runs
ProfilesIdle ==
    /\ authors = <<>>
    /\ ppc = "idle"
    /\ pidx = 0
    /\ profiles = <<>>
    /\ results = [success |-> <<>>, retry |-> <<>>]
    /\ output_file = <<>>
    /\ retry_file = <<>>
    /\ new_retry_file = <<>>
    /\ files_before = <<>>

\* get_hf_models does not run
ModelsIdle ==
    /\ n_arg = 0
    /\ available = 0
    /\ remaining = 0
    /\ offset = 0
    /\ models = <<>>
    /\ responses = <<>>
    /\ mpc = "idle"
    /\ models_file = <<>>

Init ==
    /\ \E inp \in Inputs :
         /\ directory = inp[1]
         /\ output_path = inp[2]
         /\ model_output_path = inp[3]
    /\ pc = "file_discovery"
    /\ error = NoError
    /\ parquet_files = <<>>
    /\ all_snapshots = <<>>
    /\ daily_model_downloads = <<>>
    /\ author_daily_downloads = <<>>
    /\ model_file = NULL
    /\ author_file = NULL
    /\ IngestorIdle
    /\ ScratchIdle
    /\ ProfilesIdle
    /\ ModelsIdle

\* lines 114-121: list the parquet files, fail when there is none
FileDiscovery ==
    /\ pc = "file_discovery"
    /\ parquet_files' = GlobParquet(directory)
    /\ IF NoFilesFound(GlobParquet(directory))
       THEN pc' = "error" /\ error' = NoParquetFiles
       ELSE pc' = "load_data" /\ error' = error
    /\ UNCHANGED <<directory, output_path, model_output_path, all_snapshots,
                   daily_model_downloads, author_daily_downloads, model_file,
                   author_file>>
    /\ UNCHANGED <<ingestor_vars, scratch_vars, profile_vars, models_vars>>

\* lines 123-160: build the union of the dated files and load it
LoadData ==
    /\ pc = "load_data"
    /\ LET union_queries == Dated(parquet_files)
       IN  IF union_queries = <<>>
           THEN /\ pc' = "error"
                /\ error' = NoValidDates
                /\ UNCHANGED all_snapshots
           ELSE IF \E i \in 1..Len(union_queries) :
                      ~CastDateOk(Get(extract_date_from_filename(union_queries[i])))
           THEN /\ pc' = "error"
                /\ error' = ConversionError
                /\ UNCHANGED all_snapshots
           ELSE /\ pc' = "calculate_daily_downloads"
                /\ error' = error
                /\ all_snapshots' = UnionAll(directory, union_queries)
    /\ UNCHANGED <<directory, output_path, model_output_path, parquet_files,
                   daily_model_downloads, author_daily_downloads, model_file,
                   author_file>>
    /\ UNCHANGED <<ingestor_vars, scratch_vars, profile_vars, models_vars>>

\* the ids with several rows on one snapshot_date: ORDER BY snapshot_date
\* leaves the order of such rows to the engine
TiedIds(rows) ==
    { rows[i].id : i \in { k \in 1..Len(rows) :
        \E j \in 1..Len(rows) :
            /\ j # k
            /\ rows[j].id = rows[k].id
            /\ rows[j].snapshot_date = rows[k].snapshot_date } }

\* row i comes before row j in the window PARTITION BY id ORDER BY
\* snapshot_date; rows of equal date are taken in load order, or in the
\* reverse order for the ids of rev
Before(rows, rev, i, j) ==
    /\ rows[i].id = rows[j].id
    /\ \/ rows[i].snapshot_date < rows[j].snapshot_date
       \/ /\ rows[i].snapshot_date = rows[j].snapshot_date
          /\ IF rows[i].id \in rev THEN i > j ELSE i < j

\* LAG as if it gave the value of the first row of the window instead of
\* the row just before j
MutLagFromFirstRow(rows, rev, j, col) ==
    LET first == { i \in 1..Len(rows) :
                     /\ Before(rows, rev, i, j)
                     /\ \A k \in 1..Len(rows) : ~Before(rows, rev, k, i) }
    IN  IF first = {} THEN NULL ELSE rows[CHOOSE i \in first : TRUE][col]

\* LAG(col) OVER (PARTITION BY id ORDER BY snapshot_date) at row j: the
\* value of the row just before j in its window, NULL for the first row
Lag(rows, rev, j, col) ==
    LET prev == { i \in 1..Len(rows) :
                    /\ Before(rows, rev, i, j)
                    /\ \A k \in 1..Len(rows) :
                         Before(rows, rev, k, j) => (k = i \/ Before(rows, rev, k, i)) }
    IN  IF prev = {} THEN NULL ELSE rows[CHOOSE i \in prev : TRUE][col]

\* the delta with negative differences set to 0, as the pandas and
\* PostgreSQL engines do
MutDailyDeltaClamped(cur, prev) ==
    IF IsNull(Minus(cur, prev)) THEN NULL
    ELSE IF Get(Minus(cur, prev)) < 0 THEN Val(0) ELSE Minus(cur, prev)

\* col - LAG(col) OVER (...)
DailyDelta(cur, prev) == Minus(cur, prev)

\* the SELECT list of daily_model_downloads for row j
DeltaRow(rows, rev, j) ==
    [snapshot_date |-> rows[j].snapshot_date,
     id |-> rows[j].id,
     author |-> rows[j].author,
     downloadsAllTime |-> rows[j].downloadsAllTime,
     likes |-> rows[j].likes,
     trendingScore |-> rows[j].trendingScore,
     downloads30 |-> rows[j].downloads30,
     daily_downloads |->
         DailyDelta(rows[j].downloadsAllTime, Lag(rows, rev, j, "downloadsAllTime")),
     daily_likes |->
         DailyDelta(rows[j].likes, Lag(rows, rev, j, "likes")),
     daily_trending_score |->
         DailyDelta(rows[j].trendingScore, Lag(rows, rev, j, "trendingScore")),
     daily_downloads30 |->
         DailyDelta(rows[j].downloads30, Lag(rows, rev, j, "downloads30"))]

\* ORDER BY id, snapshot_date, as a sequence of the row numbers; rows of one
\* id and date stay in the order of their window
OrderByIdDate(rows, rev) ==
    LET Less(i, j) == \/ StrLess(Chars(rows[i].id), Chars(rows[j].id))
                      \/ Before(rows, rev, i, j)
        RECURSIVE Sort(_)
        Sort(S) == IF S = {} THEN <<>>
                   ELSE LET m == CHOOSE x \in S : \A y \in S \ {x} : Less(x, y)
                        IN  <<m>> \o Sort(S \ {m})
    IN  Sort(1..Len(rows))

\* CREATE TABLE daily_model_downloads AS SELECT ... FROM all_snapshots
DailyModelDownloads(rows, rev) ==
    LET order == OrderByIdDate(rows, rev)
    IN  [k \in 1..Len(rows) |-> DeltaRow(rows, rev, order[k])]

\* lines 162-196: the per-model deltas
CalculateDailyDownloads ==
    /\ pc = "calculate_daily_downloads"
    /\ \E rev \in SUBSET TiedIds(all_snapshots) :
         daily_model_downloads' = DailyModelDownloads(all_snapshots, rev)
    /\ pc' = "save_model_output"
    /\ UNCHANGED <<directory, output_path, model_output_path, error,
                   parquet_files, all_snapshots, author_daily_downloads,
                   model_file, author_file>>
    /\ UNCHANGED <<ingestor_vars, scratch_vars, profile_vars, models_vars>>

\* lines 198-213: COPY daily_model_downloads TO model_output_path
SaveModelOutput ==
    /\ pc = "save_model_output"
    /\ model_file' = IF model_output_path THEN Val(daily_model_downloads)
                     ELSE model_file
    /\ pc' = "aggregate_by_author"
    /\ UNCHANGED <<directory, output_path, model_output_path, error,
                   parquet_files, all_snapshots, daily_model_downloads,
                   author_daily_downloads, author_file>>
    /\ UNCHANGED <<ingestor_vars, scratch_vars, profile_vars, models_vars>>

\* the values of a column, row by row
Col(rows, name) == [i \in 1..Len(rows) |-> rows[i][name]]

\* the WHERE clause of the aggregation
AggregateFilter(r) ==
    /\ ~IsNull(r.daily_downloads)
    /\ Get(r.daily_downloads) >= 0

\* the SELECT list of author_daily_downloads for the group (date, author),
\* rows being the filtered rows
AuthorRow(rows, date, author) ==
    LET g == SelectSeq(rows, LAMBDA r : r.snapshot_date = date /\ r.author = author)
    IN  [snapshot_date |-> date,
         author |-> author,
         n_models |-> Cardinality({ g[i].id : i \in 1..Len(g) }),
         total_daily_downloads |-> SqlSum(Col(g, "daily_downloads")),
         avg_daily_downloads_per_model |-> SqlAvg(Col(g, "daily_downloads")),
         total_cumulative_downloads |-> SqlSum(Col(g, "downloadsAllTime")),
         total_daily_likes |-> SqlSum(Col(g, "daily_likes")),
         avg_daily_likes_per_model |-> SqlAvg(Col(g, "daily_likes")),
         total_cumulative_likes |-> SqlSum(Col(g, "likes")),
         total_daily_trending_score |-> SqlSum(Col(g, "daily_trending_score")),
         avg_daily_trending_score_per_model |-> SqlAvg(Col(g, "daily_trending_score")),
         total_cumulative_trending_score |-> SqlSum(Col(g, "trendingScore")),
         total_daily_downloads30 |-> SqlSum(Col(g, "daily_downloads30")),
         avg_daily_downloads30_per_model |-> SqlAvg(Col(g, "daily_downloads30")),
         total_cumulative_downloads30 |-> SqlSum(Col(g, "downloads30"))]

\* ORDER BY snapshot_date, total_daily_downloads DESC of a set of author
\* rows; rows equal in both are listed by author
OrderByDateTotal(S) ==
    LET Less(a, b) ==
            \/ a.snapshot_date < b.snapshot_date
            \/ /\ a.snapshot_date = b.snapshot_date
               /\ \/ Get(a.total_daily_downloads) > Get(b.total_daily_downloads)
                  \/ /\ a.total_daily_downloads = b.total_daily_downloads
                     /\ StrLess(Chars(a.author), Chars(b.author))
        RECURSIVE Sort(_)
        Sort(T) == IF T = {} THEN <<>>
                   ELSE LET m == CHOOSE x \in T : \A y \in T \ {x} : Less(x, y)
                        IN  <<m>> \o Sort(T \ {m})
    IN  Sort(S)

\* CREATE TABLE author_daily_downloads AS SELECT ... FROM
\* daily_model_downloads WHERE ... GROUP BY snapshot_date, author
AuthorDailyDownloads(deltas) ==
    LET rows == SelectSeq(deltas, AggregateFilter)
        groups == { <<rows[i].snapshot_date, rows[i].author>> : i \in 1..Len(rows) }
    IN  OrderByDateTotal({ AuthorRow(rows, g[1], g[2]) : g \in groups })

\* lines 215-244: the per-author aggregates
AggregateByAuthor ==
    /\ pc = "aggregate_by_author"
    /\ author_daily_downloads' = AuthorDailyDownloads(daily_model_downloads)
    /\ pc' = "save_output"
    /\ UNCHANGED <<directory, output_path, model_output_path, error,
                   parquet_files, all_snapshots, daily_model_downloads,
                   model_file, author_file>>
    /\ UNCHANGED <<ingestor_vars, scratch_vars, profile_vars, models_vars>>

\* lines 276-314: COPY author_daily_downloads TO output_path, and return
SaveOutput ==
    /\ pc = "save_output"
    /\ author_file' = IF output_path THEN Val(author_daily_downloads)
                      ELSE author_file
    /\ pc' = "done"
    /\ UNCHANGED <<directory, output_path, model_output_path, error,
                   parquet_files, all_snapshots, daily_model_downloads,
                   author_daily_downloads, model_file>>
    /\ UNCHANGED <<ingestor_vars, scratch_vars, profile_vars, models_vars>>

Next ==
    \/ FileDiscovery
    \/ LoadData
    \/ CalculateDailyDownloads
    \/ SaveModelOutput
    \/ AggregateByAuthor
    \/ SaveOutput

Spec == Init /\ [][Next]_vars

-----------------------------------------------------------------------------
(* Runs of process_historical_data that do not reach their end: run_clean  *)
(* of run.py logs the exception and exits, and neither it nor              *)
(* process_historical_data removes a file written before the failure.      *)

Interrupted == "KeyboardInterrupt"
CopyIOError == "IOException: could not write file"

\* the run is stopped between two of its steps
Interrupt ==
    /\ pc \notin {"done", "error"}
    /\ pc' = "error"
    /\ error' = Interrupted
    /\ UNCHANGED <<directory, output_path, model_output_path, parquet_files,
                   all_snapshots, daily_model_downloads,
                   author_daily_downloads, model_file, author_file>>
    /\ UNCHANGED <<ingestor_vars, scratch_vars, profile_vars, models_vars>>

\* lines 283-287: COPY author_daily_downloads raises
SaveOutputFails ==
    /\ pc = "save_output"
    /\ output_path
    /\ pc' = "error"
    /\ error' = CopyIOError
    /\ UNCHANGED <<directory, output_path, model_output_path, parquet_files,
                   all_snapshots, daily_model_downloads,
                   author_daily_downloads, model_file, author_file>>
    /\ UNCHANGED <<ingestor_vars, scratch_vars, profile_vars, models_vars>>

AbortNext ==
    \/ Next
    \/ Interrupt
    \/ SaveOutputFails

AbortSpec == Init /\ [][AbortNext]_vars

-----------------------------------------------------------------------------
(* The snapshot ingestor: download_historical_models_data of               *)
(* l3-data-pipelines/pipeline/src/downloadModelsData.py.                   *)
(*                                                                         *)
(* A version (commit) of the remote dataset has an id, a date, a title, a  *)
(* message and the files models.parquet and models.csv as they are at that *)
(* revision (NULL when the file does not exist there).  The content of a   *)
(* file is a number; a negative number is the truncated copy of a content. *)

UpperCase == {"A", "B", "C", "D", "E", "F", "G", "H", "I", "J", "K", "L", "M",
              "N", "O", "P", "Q", "R", "S", "T", "U", "V", "W", "X", "Y", "Z"}

\* str.lower()
RECURSIVE Lower(_)
Lower(s) ==
    IF Len(s) = 0 THEN ""
    ELSE LET c == SubSeq(s, 1, 1)
         IN  (IF c \in UpperCase THEN Alphabet[Ord(c) + 26] ELSE c)
               \o Lower(SubSeq(s, 2, Len(s)))

\* pat in text
Contains(text, pat) ==
    \E i \in 1..(Len(text) - Len(pat) + 1) : SubSeq(text, i, i + Len(pat) - 1) = pat

\* the decimal digits of n, zero-padded to width w
RECURSIVE Padded(_, _)
Padded(n, w) == IF w = 0 THEN ""
                ELSE Padded(n \div 10, w - 1) \o Alphabet[Ord("0") + (n % 10)]

\* commit_date.strftime("%Y%m%d") of the date <<year, month, day>>
Strftime(date) == Padded(date[1], 4) \o Padded(date[2], 2) \o Padded(date[3], 2)

\* the order of the calendar on dates
DateNum(date) == date[1] * 10000 + date[2] * 100 + date[3]

\* date - timedelta(days=n)
RECURSIVE MinusDays(_, _)
MinusDays(date, n) ==
    IF n = 0 THEN date
    ELSE IF date[3] > 1 THEN MinusDays(<<date[1], date[2], date[3] - 1>>, n - 1)
    ELSE IF date[2] > 1
         THEN MinusDays(<<date[1], date[2] - 1, DaysInMonth(date[1], date[2] - 1)>>, n - 1)
    ELSE MinusDays(<<date[1] - 1, 12, 31>>, n - 1)

\* datetime.now(): the day of the runs
Today == <<2025, 1, 4>>

\* the candidate formats, in the order of the loop
Formats == <<"parquet", "csv">>

\* f"models-{date_str}-{short_sha}.{file_format}"
OutputFilename(commit, file_format) ==
    "models-" \o Strftime(commit.created_at) \o "-"
        \o SubSeq(commit.commit_id, 1, 7) \o "." \o file_format

\* _compute_file_hash: the SHA-256 digest of a content, taken to be free of
\* collisions
ComputeFileHash(content) == <<"sha256", content>>

\* the test of the commit message: models.parquet or models.csv is named
\* in the lower-cased title and message
IsRelevant(commit) ==
    LET commit_text == Lower(commit.title \o " " \o commit.message)
    IN  \/ Contains(commit_text, "models.parquet")
        \/ Contains(commit_text, "models.csv")

\* cutoff_date of a days_back: None (NULL) for None and for 0
CutoffDate(days) ==
    IF IsNull(days) \/ Get(days) = 0 THEN NULL
    ELSE Val(MinusDays(Today, Get(days)))

Reverse(s) == [i \in 1..Len(s) |-> s[Len(s) + 1 - i]]

\* _fetch_all_commits_with_pagination: git log of the published versions,
\* newest first, with --since when a cutoff is given
FetchAllCommits(history, days) ==
    LET cutoff == CutoffDate(days)
        Since(c) == IsNull(cutoff) \/ DateNum(c.created_at) >= DateNum(Get(cutoff))
    IN  Reverse(SelectSeq(history, Since))

\* the versions of the catalogue: commit id and date of the commit
CommitIds == <<"510957d2c4e8a1f0b3d5c7e9a2b4c6d8e0f1a3b5",
               "a1b2c3d4e5f60718293a4b5c6d7e8f9012345678",
               "e4f5a6b7c8d9e0f1a2b3c4d5e6f708192a3b4c5d",
               "0c0ffee1234567890abcdef1234567890abcdef1">>
CommitDates == << <<2025, 1, 1>>, <<2025, 1, 2>>, <<2025, 1, 2>>, <<2025, 1, 4>> >>

\* title and message of a commit
UploadParquet == <<"Upload models.parquet", "">>
UpdateCsv == <<"Update models.csv", "">>
UpdateReadme == <<"Update README.md", "">>
InMessage == <<"Daily update", "models.csv">>
UpperCased == <<"Refresh MODELS.PARQUET", "">>

\* the i-th version of the catalogue with a text and its two files
Commit(i, text, parquet, csv) ==
    [commit_id |-> CommitIds[i], created_at |-> CommitDates[i],
     title |-> text[1], message |-> text[2],
     files |-> [parquet |-> parquet, csv |-> csv]]

\* the contents of n successive versions of models.parquet, numbered in the
\* order of their first appearance
ContentSeqs(n) ==
    { s \in [1..n -> 1..MaxContents] :
        \A i \in 1..n : \A k \in 1..(s[i] - 1) : \E j \in 1..(i - 1) : s[j] = k }

\* histories of parquet versions, some of equal content
DedupHistories ==
    UNION { { [i \in 1..n |-> Commit(i, UploadParquet, Val(s[i]), NULL)] :
                s \in ContentSeqs(n) } : n \in 1..MaxVersions }

\* histories of two versions in the older format, in both, or in none
FormatHistories ==
    { <<Commit(1, UpdateCsv, f1[1], f1[2]), Commit(2, UploadParquet, f2[1], f2[2])>> :
        f1 \in {<<NULL, Val(1)>>, <<NULL, NULL>>},
        f2 \in {<<Val(1), Val(2)>>, <<Val(2), NULL>>, <<NULL, Val(1)>>} }

\* histories of two versions, any text
TextHistories ==
    { <<Commit(1, t1, Val(1), NULL), Commit(2, t2, Val(2), NULL)>> :
        t1 \in {UploadParquet, UpdateReadme, InMessage},
        t2 \in {UpdateCsv, UpdateReadme, UpperCased} }

Histories == DedupHistories \cup FormatHistories \cup TextHistories

\* the values of days_back
DaysBack == {NULL, Val(2)}

\* what the network and the disk do at one attempt: nothing goes wrong,
\* hf_hub_download raises, shutil.copy raises and leaves nothing, or
\* shutil.copy raises and leaves a truncated file
Attempts == {"ok", "download_raises", "copy_raises", "copy_truncates"}

\* a file of the store
File(content, written) == [content |-> content, mtime |-> written]

\* the messages of the exceptions of an attempt
NotFound == "404 Client Error: Entry Not Found"
ConnectionLost == "Connection aborted"
CopyFailed == "No space left on device"

\* the handler of the inner try, letting the exception leave the loop
MutOnExceptionRaises(S, commit, error_msg) ==
    [S EXCEPT !.raised = TRUE]

\* lines 304-311: an exception of an attempt is caught and the loop goes on
\* to the next format; an error that is no missing file is logged
OnException(S, commit, error_msg) ==
    IF error_msg = NotFound THEN S
    ELSE [S EXCEPT !.failures = @ \cup {commit.commit_id}]

\* the test of lines 265-266 left out
MutAlreadyDownloadedNever(dir, output_filename) == FALSE

\* output_path.exists()
AlreadyDownloaded(dir, output_filename) == output_filename \in DOMAIN dir

\* the hash of a file found on disk not recorded
MutSeenAfterExistingUnchanged(seen, file) == seen

\* lines 268-269: the hash of a file found on disk is recorded
SeenAfterExisting(seen, file) == seen \cup {ComputeFileHash(file.content)}

\* lines 260-302: the body of the inner loop for one format; S holds the
\* variables of the run, e what the network and the disk do
TryFormat(S, commit, file_format, e) ==
    LET output_filename == OutputFilename(commit, file_format)
        remote_file == commit.files[file_format]
    IN  IF AlreadyDownloaded(S.store, output_filename)
        THEN [S EXCEPT
                !.seen_hashes = SeenAfterExisting(@, S.store[output_filename]),
                !.counters.skipped_existing = @ + 1,
                !.file_downloaded = TRUE]
        ELSE IF IsNull(remote_file)
        THEN OnException(S, commit, NotFound)
        ELSE IF e = "download_raises"
        THEN OnException([S EXCEPT !.faults = @ + 1], commit, ConnectionLost)
        ELSE LET file_hash == ComputeFileHash(Get(remote_file))
                 S1 == [S EXCEPT !.hub_downloads = @ \cup {<<commit.commit_id, file_format>>}]
             IN  IF file_hash \in S1.seen_hashes
                 THEN [S1 EXCEPT !.counters.skipped_no_change = @ + 1,
                                 !.file_downloaded = TRUE]
                 ELSE LET S2 == [S1 EXCEPT !.seen_hashes = @ \cup {file_hash}]
                      IN  CASE e = "ok" ->
                                 [S2 EXCEPT
                                    !.store = (output_filename :>
                                                 File(Get(remote_file), S.run)) @@ @,
                                    !.downloaded_files = Append(@, output_filename),
                                    !.counters.successful_downloads = @ + 1,
                                    !.file_downloaded = TRUE]
                            [] e = "copy_raises" ->
                                 OnException([S2 EXCEPT !.faults = @ + 1], commit,
                                             CopyFailed)
                            [] e = "copy_truncates" ->
                                 OnException(
                                    [S2 EXCEPT !.faults = @ + 1,
                                               !.store = (output_filename :>
                                                 File(-Get(remote_file), S.run)) @@ @],
                                    commit, CopyFailed)

RECURSIVE TryFormats(_, _, _, _)
\* lines 259-311: for file_format in ["parquet", "csv"], until a break
TryFormats(S, commit, formats, e) ==
    IF formats = <<>> \/ S.file_downloaded \/ S.raised THEN S
    ELSE TryFormats(TryFormat(S, commit, Head(formats), e[Head(formats)]),
                    commit, Tail(formats), e)

\* the body of the loop without lines 313-315: a version of which no file
\* was found is not counted
MutProcessCommitNoFileUncounted(S, commit, e) ==
    TryFormats([S EXCEPT !.file_downloaded = FALSE], commit, Formats, e)

\* lines 246-321: the body of the loop over relevant_commits for one commit
ProcessCommit(S, commit, e) ==
    LET S1 == TryFormats([S EXCEPT !.file_downloaded = FALSE], commit, Formats, e)
    IN  IF S1.file_downloaded \/ S1.raised THEN S1
        ELSE [S1 EXCEPT !.counters.skipped_no_file = @ + 1]

\* no run of process_historical_data takes place
EngineIdle ==
    /\ directory = <<>>
    /\ output_path = FALSE
    /\ model_output_path = FALSE
    /\ pc = "idle"
    /\ error = NoError
    /\ parquet_files = <<>>
    /\ all_snapshots = <<>>
    /\ daily_model_downloads = <<>>
    /\ author_daily_downloads = <<>>
    /\ model_file = NULL
    /\ author_file = NULL

\* an empty store and a remote history of which the last version may not
\* be published yet
IngestInit ==
    /\ remote \in Histories
    /\ head \in {Len(remote) - 1, Len(remote)}
    /\ store = <<>>
    /\ run = 0
    /\ ipc = "idle"
    /\ days_back = NULL
    /\ commits = <<>>
    /\ relevant_commits = <<>>
    /\ position = 0
    /\ seen_hashes = {}
    /\ downloaded_files = <<>>
    /\ counters = NoCounts
    /\ hub_downloads = {}
    /\ failures = {}
    /\ faults = 0
    /\ store_at_start = <<>>
    /\ previous_run = NULL
    /\ listing = "none"
    /\ EngineIdle
    /\ ScratchIdle
    /\ ProfilesIdle
    /\ ModelsIdle

\* the upstream dataset gains a version between two runs
Publish ==
    /\ ipc # "loop"
    /\ head < Len(remote)
    /\ head' = head + 1
    /\ UNCHANGED <<remote, store, run, ipc, days_back, commits, relevant_commits,
                   position, seen_hashes, downloaded_files, counters,
                   hub_downloads, failures, faults, store_at_start, previous_run,
                   listing>>
    /\ UNCHANGED <<engine_vars, scratch_vars, profile_vars, models_vars>>

\* lines 197-242: a run starts: the history is listed, the commits that name
\* a models file are kept, the counters are reset
StartRun ==
    /\ ipc # "loop"
    /\ run < MaxRuns
    /\ \E d \in DaysBack :
         /\ days_back' = d
         /\ commits' = FetchAllCommits(SubSeq(remote, 1, head), d)
         /\ relevant_commits' =
                SelectSeq(FetchAllCommits(SubSeq(remote, 1, head), d), IsRelevant)
    /\ run' = run + 1
    /\ ipc' = "loop"
    /\ position' = 1
    /\ seen_hashes' = {}
    /\ downloaded_files' = <<>>
    /\ counters' = NoCounts
    /\ hub_downloads' = {}
    /\ failures' = {}
    /\ store_at_start' = store
    /\ previous_run' = IF run = 0 THEN NULL
                       ELSE Val([days_back |-> days_back, commits |-> commits,
                                 failures |-> failures, completed |-> ipc = "returned"])
    /\ listing' = "git"
    /\ UNCHANGED <<remote, head, store, faults>>
    /\ UNCHANGED <<engine_vars, scratch_vars, profile_vars, models_vars>>

\* the state of a run that starts, before the history is listed
RunStarts ==
    /\ run' = run + 1
    /\ seen_hashes' = {}
    /\ downloaded_files' = <<>>
    /\ counters' = NoCounts
    /\ hub_downloads' = {}
    /\ failures' = {}
    /\ store_at_start' = store
    /\ previous_run' = IF run = 0 THEN NULL
                       ELSE Val([days_back |-> days_back, commits |-> commits,
                                 failures |-> failures, completed |-> ipc = "returned"])

\* the number of commits the fallback listing is said to return
ApiCommitLimit == 50

\* lines 122-128: api.list_repo_commits, newest first and capped, then the
\* commits not older than the cutoff
ApiListing(history, days) ==
    LET cutoff == CutoffDate(days)
        Since(c) == IsNull(cutoff) \/ DateNum(c.created_at) >= DateNum(Get(cutoff))
        listed == Reverse(history)
        capped == IF Len(listed) > ApiCommitLimit
                  THEN SubSeq(listed, 1, ApiCommitLimit) ELSE listed
    IN  SelectSeq(capped, Since)

\* line 117: except subprocess.CalledProcessError; an exit status of git
\* clone or git log is caught, any other exception is not
FallsBack(reason) == reason = "CalledProcessError"

\* lines 64-69 and 117-128: git clone or git log exits with an error, the
\* commits are listed through the API and the run goes on
ListingFallsBack ==
    /\ ipc # "loop"
    /\ run < MaxRuns
    /\ faults < MaxFaults
    /\ faults' = faults + 1
    /\ \E d \in DaysBack :
         /\ days_back' = d
         /\ commits' = ApiListing(SubSeq(remote, 1, head), d)
         /\ relevant_commits' =
                SelectSeq(ApiListing(SubSeq(remote, 1, head), d), IsRelevant)
    /\ RunStarts
    /\ IF FallsBack("CalledProcessError")
       THEN ipc' = "loop" /\ position' = 1 /\ listing' = "api"
       ELSE ipc' = "raised" /\ position' = 0 /\ listing' = "git_failed"
    /\ UNCHANGED <<remote, head, store>>
    /\ UNCHANGED <<engine_vars, scratch_vars, profile_vars, models_vars>>

\* lines 64-69: subprocess.run cannot start git (FileNotFoundError when no
\* git is installed); the exception is no CalledProcessError, it leaves
\* _fetch_all_commits_with_pagination and, by lines 338-340, the run
GitUnavailable ==
    /\ ipc # "loop"
    /\ run < MaxRuns
    /\ faults < MaxFaults
    /\ faults' = faults + 1
    /\ \E d \in DaysBack : days_back' = d
    /\ commits' = <<>>
    /\ relevant_commits' = <<>>
    /\ RunStarts
    /\ IF FallsBack("FileNotFoundError")
       THEN ipc' = "loop" /\ position' = 1 /\ listing' = "api"
       ELSE ipc' = "raised" /\ position' = 0 /\ listing' = "git_unavailable"
    /\ UNCHANGED <<remote, head, store>>
    /\ UNCHANGED <<engine_vars, scratch_vars, profile_vars, models_vars>>

\* lines 117-128, 215-219 and 338-340: git fails and the fallback listing
\* raises as well; the exception leaves the function
ListingFails ==
    /\ ipc # "loop"
    /\ run < MaxRuns
    /\ faults < MaxFaults
    /\ faults' = faults + 1
    /\ \E d \in DaysBack : days_back' = d
    /\ run' = run + 1
    /\ ipc' = "raised"
    /\ commits' = <<>>
    /\ relevant_commits' = <<>>
    /\ position' = 0
    /\ seen_hashes' = {}
    /\ downloaded_files' = <<>>
    /\ counters' = NoCounts
    /\ hub_downloads' = {}
    /\ failures' = {}
    /\ store_at_start' = store
    /\ previous_run' = IF run = 0 THEN NULL
                       ELSE Val([days_back |-> days_back, commits |-> commits,
                                 failures |-> failures, completed |-> ipc = "returned"])
    /\ listing' = "api_failed"
    /\ UNCHANGED <<remote, head, store>>
    /\ UNCHANGED <<engine_vars, scratch_vars, profile_vars, models_vars>>

\* lines 245-321: one turn of the loop
DownloadVersion ==
    /\ ipc = "loop"
    /\ position <= Len(relevant_commits)
    /\ \E e \in [{"parquet", "csv"} -> Attempts] :
         /\ LET S == [store |-> store, run |-> run, seen_hashes |-> seen_hashes,
                      faults |-> faults,
                      downloaded_files |-> downloaded_files, counters |-> counters,
                      hub_downloads |-> hub_downloads, failures |-> failures,
                      file_downloaded |-> FALSE, raised |-> FALSE]
                R == ProcessCommit(S, relevant_commits[position], e)
            IN  /\ R.faults <= MaxFaults
                /\ faults' = R.faults
                /\ store' = R.store
                /\ seen_hashes' = R.seen_hashes
                /\ downloaded_files' = R.downloaded_files
                /\ counters' = R.counters
                /\ hub_downloads' = R.hub_downloads
                /\ failures' = R.failures
                /\ ipc' = IF R.raised THEN "raised" ELSE "loop"
    /\ position' = position + 1
    /\ UNCHANGED <<remote, head, run, days_back, commits, relevant_commits,
                   store_at_start, previous_run, listing>>
    /\ UNCHANGED <<engine_vars, scratch_vars, profile_vars, models_vars>>

\* lines 323-336: the loop is over, downloaded_files is returned
Return ==
    /\ ipc = "loop"
    /\ position > Len(relevant_commits)
    /\ ipc' = "returned"
    /\ UNCHANGED <<remote, head, store, run, days_back, commits, relevant_commits,
                   position, seen_hashes, downloaded_files, counters,
                   hub_downloads, failures, faults, store_at_start, previous_run,
                   listing>>
    /\ UNCHANGED <<engine_vars, scratch_vars, profile_vars, models_vars>>

IngestNext ==
    \/ Publish
    \/ StartRun
    \/ ListingFallsBack
    \/ GitUnavailable
    \/ ListingFails
    \/ DownloadVersion
    \/ Return

IngestSpec == IngestInit /\ [][IngestNext]_vars

-----------------------------------------------------------------------------
(* The three scratch engines of l3-data-pipelines/pipeline/scratch.        *)
(*                                                                         *)
(* clean_historical_pandas.py writes the rows of the snapshot files of a   *)
(* directory into one CSV; analyze_historical_pandas.py and                *)
(* analyze_historical_postgres.py compute the author totals from that CSV, *)
(* analyze_historical_duckdb.py from the snapshot files themselves.        *)

HexDigits == Digits \cup {"a", "b", "c", "d", "e", "f"}

\* parse_snapshot_date: "YYYY-MM-DD" when
\* re.match(r'models-(\d{8})-[a-f0-9]+\.parquet', filename) matches and the
\* eight digits name a day (strptime), NULL when a ValueError is raised
parse_snapshot_date(filename) ==
    LET c == Chars(filename)
        date_str == SubSeq(c, 8, 15)
        date == SubSeq(date_str, 1, 4) \o Dash \o SubSeq(date_str, 5, 6)
                    \o Dash \o SubSeq(date_str, 7, 8)
    IN  IF /\ Len(c) >= 25
           /\ SubSeq(c, 1, 7) = ModelsPrefix
           /\ \A k \in 8..15 : c[k] \in Digits
           /\ c[16] = "-"
           /\ \E e \in 17..(Len(c) - 8) :
                 /\ \A k \in 17..e : c[k] \in HexDigits
                 /\ SubSeq(c, e + 1, e + 8) = ParquetExt
           /\ DateParts(date)[1] >= 1
           /\ CastDateOk(date)
        THEN Val(date)
        ELSE NULL

\* process_snapshot_file: the columns id, likes, downloads and
\* downloadsAllTime of the rows of a file, with the date of the file
process_snapshot_file(dir, n) ==
    [i \in 1..Len(dir[n]) |->
        [id |-> dir[n][i].id,
         likes |-> dir[n][i].likes,
         downloads |-> dir[n][i].downloads,
         downloadsAllTime |-> dir[n][i].downloadsAllTime,
         snapshot_date |-> Get(parse_snapshot_date(n))]]

RECURSIVE Concat(_, _)
\* pd.concat of the frames of the files, in the order of the list
Concat(dir, files) ==
    IF files = <<>> THEN <<>>
    ELSE process_snapshot_file(dir, Head(files)) \o Concat(dir, Tail(files))

\* clean_historical_data: the combined frame written to the CSV
clean_historical_data(dir) == Concat(dir, GlobParquet(dir))

\* extract_author of analyze_historical_pandas.py
extract_author(model_id) ==
    IF \E i \in 1..Len(Chars(model_id)) : Chars(model_id)[i] = Slash
    THEN Str(BeforeFirstSlash(Chars(model_id)))
    ELSE model_id

\* df[['id', 'downloadsAllTime', 'snapshot_date']] with the author column
PandasSubset(csv) ==
    [i \in 1..Len(csv) |->
        [id |-> Get(csv[i].id),
         downloadsAllTime |-> csv[i].downloadsAllTime,
         snapshot_date |-> csv[i].snapshot_date,
         author |-> extract_author(Get(csv[i].id))]]

\* sort_values(['id', 'snapshot_date']): the rows by id, then by the date
\* string; equal rows keep their order
SortValues(df) ==
    LET Less(i, j) ==
            \/ StrLess(Chars(df[i].id), Chars(df[j].id))
            \/ /\ df[i].id = df[j].id
               /\ \/ StrLess(df[i].snapshot_date, df[j].snapshot_date)
                  \/ df[i].snapshot_date = df[j].snapshot_date /\ i < j
        RECURSIVE Sort(_)
        Sort(S) == IF S = {} THEN <<>>
                   ELSE LET m == CHOOSE x \in S : \A y \in S \ {x} : Less(x, y)
                        IN  <<m>> \o Sort(S \ {m})
        order == Sort(1..Len(df))
    IN  [k \in 1..Len(df) |-> df[order[k]]]

\* groupby('id')['downloadsAllTime'].diff() at row k: the difference with
\* the row before k of the same id, NaN (NULL) for the first row of an id
GroupDiff(df, k) ==
    LET earlier == { i \in 1..(k - 1) : df[i].id = df[k].id }
    IN  IF earlier = {} THEN NULL
        ELSE Minus(df[k].downloadsAllTime,
                   df[CHOOSE i \in earlier : \A j \in earlier : j <= i].downloadsAllTime)

\* fillna(df['downloadsAllTime']), then negative values set to 0
PandasDailyDownloads(df, k) ==
    LET filled == IF IsNull(GroupDiff(df, k)) THEN df[k].downloadsAllTime
                  ELSE GroupDiff(df, k)
    IN  IF ~IsNull(filled) /\ Get(filled) < 0 THEN Val(0) ELSE filled

\* groupby(['author', 'snapshot_date'])['daily_downloads'].sum(): one row
\* for each pair, the sum skipping NaN, the rows by author and date
PandasGroupSum(df) ==
    LET daily == [k \in 1..Len(df) |-> PandasDailyDownloads(df, k)]
        keys == { <<df[k].author, df[k].snapshot_date>> : k \in 1..Len(df) }
        Total(g) ==
            LET ks == SelectSeq([k \in 1..Len(df) |-> k],
                                LAMBDA k : <<df[k].author, df[k].snapshot_date>> = g)
            IN  SumSeq(NonNull([n \in 1..Len(ks) |-> daily[ks[n]]]))
        Less(a, b) == \/ StrLess(Chars(a[1]), Chars(b[1]))
                      \/ a[1] = b[1] /\ StrLess(a[2], b[2])
        RECURSIVE Sort(_)
        Sort(S) == IF S = {} THEN <<>>
                   ELSE LET m == CHOOSE x \in S : \A y \in S \ {x} : Less(x, y)
                        IN  <<m>> \o Sort(S \ {m})
        order == Sort(keys)
    IN  [n \in 1..Len(order) |->
            [author |-> order[n][1],
             snapshot_date |-> order[n][2],
             total_daily_downloads |-> Total(order[n])]]

\* analyze_historical_data of analyze_historical_pandas.py
PandasAnalyze(csv) == PandasGroupSum(SortValues(PandasSubset(csv)))

\* COPY model_downloads FROM STDIN: the rows of the CSV, the date as DATE
CopyFromCsv(csv) ==
    [i \in 1..Len(csv) |->
        [id |-> Get(csv[i].id),
         likes |-> csv[i].likes,
         downloads |-> csv[i].downloads,
         downloads_all_time |-> csv[i].downloadsAllTime,
         snapshot_date |-> CastDate(csv[i].snapshot_date)]]

\* the CTE daily_diffs
DailyDiffs(t) ==
    [j \in 1..Len(t) |->
        [author |-> SplitPart1(t[j].id),
         model_id |-> t[j].id,
         snapshot_date |-> t[j].snapshot_date,
         downloads_all_time |-> t[j].downloads_all_time,
         daily_downloads |->
             Minus(t[j].downloads_all_time, Lag(t, {}, j, "downloads_all_time"))]]

\* the CTE cleaned_diffs: the CASE on daily_downloads
CleanedDiffs(d) ==
    [j \in 1..Len(d) |->
        [author |-> d[j].author,
         snapshot_date |-> d[j].snapshot_date,
         daily_downloads |->
             IF IsNull(d[j].daily_downloads) THEN d[j].downloads_all_time
             ELSE IF Get(d[j].daily_downloads) < 0 THEN Val(0)
             ELSE d[j].daily_downloads]]

\* SELECT author, snapshot_date, SUM(daily_downloads) ... GROUP BY author,
\* snapshot_date ORDER BY author, snapshot_date
PostgresGroupSum(c) ==
    LET keys == { <<c[k].author, c[k].snapshot_date>> : k \in 1..Len(c) }
        Total(g) ==
            SqlSum(Col(SelectSeq(c, LAMBDA r : <<r.author, r.snapshot_date>> = g),
                       "daily_downloads"))
        Less(a, b) == \/ StrLess(Chars(a[1]), Chars(b[1]))
                      \/ a[1] = b[1] /\ a[2] < b[2]
        RECURSIVE Sort(_)
        Sort(S) == IF S = {} THEN <<>>
                   ELSE LET m == CHOOSE x \in S : \A y \in S \ {x} : Less(x, y)
                        IN  <<m>> \o Sort(S \ {m})
        order == Sort(keys)
    IN  [n \in 1..Len(order) |->
            [author |-> order[n][1],
             snapshot_date |-> order[n][2],
             total_daily_downloads |-> Total(order[n])]]

\* analyze_historical_data of analyze_historical_postgres.py
PostgresAnalyze(csv) == PostgresGroupSum(CleanedDiffs(DailyDiffs(CopyFromCsv(csv))))

\* process_historical_data of analyze_historical_duckdb.py: the queries of
\* clean_models_data.py restricted to the downloadsAllTime columns (the
\* other columns are carried along and do not enter the totals)
DuckdbAnalyze(dir) ==
    AuthorDailyDownloads(
        DailyModelDownloads(UnionAll(dir, Dated(GlobParquet(dir))), {}))

\* snapshot tables for the three engines: ids and counters present
ScratchTables ==
    { RowsOf(<<IdAX, IdAY, IdOrphan>>, <<c1, c2, c3>>) :
        c1 \in {Absent} \cup (Counts \X {Others1}),
        c2 \in {Absent} \cup ({Val(1)} \X {Others1}),
        c3 \in {Absent} \cup ({Val(1)} \X {Others1}) }

\* directories of up to MaxFiles snapshots of distinct dates
ScratchDirs ==
    UNION { [S -> ScratchTables] : S \in UpTo({N0101, N0102, N0104}, MaxFiles) \ {{}} }

ScratchInit ==
    /\ input_dir \in ScratchDirs
    /\ csv_file = NULL
    /\ pandas_result = NULL
    /\ postgres_result = NULL
    /\ duckdb_result = NULL
    /\ EngineIdle
    /\ IngestorIdle
    /\ ProfilesIdle
    /\ ModelsIdle

\* clean_historical_pandas.py on a directory all of whose files it accepts
CleanHistorical ==
    /\ IsNull(csv_file)
    /\ GlobParquet(input_dir) # <<>>
    /\ \A n \in DOMAIN input_dir :
          GlobMatches(n) => ~IsNull(parse_snapshot_date(n))
    /\ csv_file' = Val(clean_historical_data(input_dir))
    /\ UNCHANGED <<input_dir, pandas_result, postgres_result, duckdb_result>>
    /\ UNCHANGED <<engine_vars, ingestor_vars, profile_vars, models_vars>>

\* analyze_historical_pandas.py on the CSV
AnalyzePandas ==
    /\ ~IsNull(csv_file)
    /\ IsNull(pandas_result)
    /\ pandas_result' = Val(PandasAnalyze(Get(csv_file)))
    /\ UNCHANGED <<input_dir, csv_file, postgres_result, duckdb_result>>
    /\ UNCHANGED <<engine_vars, ingestor_vars, profile_vars, models_vars>>

\* analyze_historical_postgres.py on the CSV
AnalyzePostgres ==
    /\ ~IsNull(csv_file)
    /\ IsNull(postgres_result)
    /\ postgres_result' = Val(PostgresAnalyze(Get(csv_file)))
    /\ UNCHANGED <<input_dir, csv_file, pandas_result, duckdb_result>>
    /\ UNCHANGED <<engine_vars, ingestor_vars, profile_vars, models_vars>>

\* analyze_historical_duckdb.py on a directory whose dated files it loads
AnalyzeDuckdb ==
    /\ IsNull(duckdb_result)
    /\ ~NoFilesFound(GlobParquet(input_dir))
    /\ Dated(GlobParquet(input_dir)) # <<>>
    /\ \A i \in 1..Len(Dated(GlobParquet(input_dir))) :
          CastDateOk(Get(extract_date_from_filename(Dated(GlobParquet(input_dir))[i])))
    /\ duckdb_result' = Val(DuckdbAnalyze(input_dir))
    /\ UNCHANGED <<input_dir, csv_file, pandas_result, postgres_result>>
    /\ UNCHANGED <<engine_vars, ingestor_vars, profile_vars, models_vars>>

ScratchNext ==
    \/ CleanHistorical
    \/ AnalyzePandas
    \/ AnalyzePostgres
    \/ AnalyzeDuckdb

ScratchSpec == ScratchInit /\ [][ScratchNext]_vars

-----------------------------------------------------------------------------
(* scrape_profiles and retry_failed_profiles of                            *)
(* hf_scraper/src/download_hf_profiles.py.                                 *)
(*                                                                         *)
(* The output JSONL file is the sequence of its lines, each the record     *)
(* that json.dumps wrote; a retry file is its text, NULL while the file    *)
(* does not exist.                                                         *)

MaxAuthors == 3      \* authors handed to scrape_profiles

\* the authors of models.parquet by total downloads, as load_and_rank_authors
\* returns them
RankedAuthors ==
    << [author |-> "Qwen", total_downloads |-> 40],
       [author |-> "google", total_downloads |-> 30],
       [author |-> "meta-llama", total_downloads |-> 20],
       [author |-> "openai", total_downloads |-> 10],
       [author |-> "mistralai", total_downloads |-> 5] >>

\* what scrape_hf_profile meets for a profile
ScrapeOutcomes == {"ok", "rate_limited", "http_error", "raises"}

\* the dictionary scrape_hf_profile returns, its 'data' left out: 'error' is
\* None, or "HTTP <status>" for a response other than 200
ScrapeResult(profile_name, outcome) ==
    [profile |-> profile_name,
     error |-> CASE outcome = "ok" -> NULL
                 [] outcome = "rate_limited" -> Val("HTTP 429")
                 [] outcome = "http_error" -> Val("HTTP 404")]

\* open(path, 'a') and write(text): the text is added at the end of the
\* file, which is created when it does not exist
AppendText(file, text) ==
    IF IsNull(file) THEN Val(text) ELSE Val(Get(file) \o text)

\* the retry list extended, nothing written to the retry file
MutRecordRetryNotWritten(S, author) ==
    [S EXCEPT !.results.retry = Append(@, author)]

\* lines 117-121, 128-132 and 146-150: the author is added to
\* results['retry'] and written as a line of the retry file
RecordRetry(S, author) ==
    [S EXCEPT !.results.retry = Append(@, author),
              !.retry = AppendText(@, author \o "\n")]

\* lines 101-150: the body of the loop of scrape_profiles for one row
ScrapeStep(S, row, outcome) ==
    IF outcome = "raises" THEN RecordRetry(S, row.author)
    ELSE LET result == ScrapeResult(row.author, outcome)
         IN  IF ~IsNull(result.error) /\ Get(result.error) # ""
             THEN IF Contains(Get(result.error), "429")
                  THEN RecordRetry(S, row.author)
                  ELSE RecordRetry(S, row.author)
             ELSE [S EXCEPT
                     !.output = Append(@, [profile |-> result.profile,
                                           error |-> result.error,
                                           total_downloads |-> Val(row.total_downloads)]),
                     !.results.success = Append(@, row.author)]

Whitespace == {" ", "\n", "\t", "\r"}

RECURSIVE LStrip(_)
LStrip(t) ==
    IF t # "" /\ SubSeq(t, 1, 1) \in Whitespace
    THEN LStrip(SubSeq(t, 2, Len(t))) ELSE t

RECURSIVE RStrip(_)
RStrip(t) ==
    IF t # "" /\ SubSeq(t, Len(t), Len(t)) \in Whitespace
    THEN RStrip(SubSeq(t, 1, Len(t) - 1)) ELSE t

\* str.strip()
Strip(t) == RStrip(LStrip(t))

RECURSIVE FileLines(_)
\* the lines of a text file, each with its line end
FileLines(text) ==
    IF text = "" THEN <<>>
    ELSE LET ends == { k \in 1..Len(text) : SubSeq(text, k, k) = "\n" }
             k == IF ends = {} THEN Len(text)
                  ELSE CHOOSE e \in ends : \A f \in ends : e <= f
         IN  <<SubSeq(text, 1, k)>> \o FileLines(SubSeq(text, k + 1, Len(text)))

\* lines 183-184: [line.strip() for line in f if line.strip()]
ReadProfiles(text) ==
    SelectSeq([i \in 1..Len(FileLines(text)) |-> Strip(FileLines(text)[i])],
              LAMBDA l : l # "")

\* the new retry list extended, nothing written to the new retry file
MutRecordNewRetryNotWritten(S, author) ==
    [S EXCEPT !.results.retry = Append(@, author)]

\* lines 214-218, 225-229 and 240-244: the profile is added to
\* results['retry'] and written as a line of the new retry file
RecordNewRetry(S, author) ==
    [S EXCEPT !.results.retry = Append(@, author),
              !.retry = AppendText(@, author \o "\n")]

\* lines 201-244: the body of the loop of retry_failed_profiles for one
\* profile
RetryStep(S, author, outcome) ==
    IF outcome = "raises" THEN RecordNewRetry(S, author)
    ELSE LET result == ScrapeResult(author, outcome)
         IN  IF ~IsNull(result.error) /\ Get(result.error) # ""
             THEN IF Contains(Get(result.error), "429")
                  THEN RecordNewRetry(S, author)
                  ELSE RecordNewRetry(S, author)
             ELSE [S EXCEPT
                     !.output = Append(@, [profile |-> result.profile,
                                           error |-> result.error,
                                           total_downloads |-> NULL]),
                     !.results.success = Append(@, author)]

\* scrape_profiles is entered with the top authors, the output file is
\* opened for writing
ProfilesInit ==
    /\ \E k \in 0..MaxAuthors : authors = SubSeq(RankedAuthors, 1, k)
    /\ ppc = "scrape"
    /\ pidx = 1
    /\ profiles = <<>>
    /\ results = [success |-> <<>>, retry |-> <<>>]
    /\ output_file = <<>>
    /\ retry_file = NULL
    /\ new_retry_file = NULL
    /\ files_before = <<>>
    /\ EngineIdle
    /\ IngestorIdle
    /\ ScratchIdle
    /\ ModelsIdle

\* lines 100-154: one turn of the loop of scrape_profiles
ScrapeOne ==
    /\ ppc = "scrape"
    /\ pidx <= Len(authors)
    /\ \E outcome \in ScrapeOutcomes :
         LET R == ScrapeStep([results |-> results, output |-> output_file,
                              retry |-> retry_file], authors[pidx], outcome)
         IN  /\ results' = R.results
             /\ output_file' = R.output
             /\ retry_file' = R.retry
    /\ pidx' = pidx + 1
    /\ UNCHANGED <<authors, ppc, profiles, new_retry_file, files_before>>
    /\ UNCHANGED <<engine_vars, ingestor_vars, scratch_vars, models_vars>>

\* lines 156-163: scrape_profiles returns results
ScrapeReturn ==
    /\ ppc = "scrape"
    /\ pidx > Len(authors)
    /\ ppc' = "scraped"
    /\ UNCHANGED <<authors, pidx, profiles, results, output_file, retry_file,
                   new_retry_file, files_before>>
    /\ UNCHANGED <<engine_vars, ingestor_vars, scratch_vars, models_vars>>

\* lines 183-199: retry_failed_profiles is called on the retry file and the
\* output file that scrape_profiles left
RetryStart ==
    /\ ppc = "scraped"
    /\ ~IsNull(retry_file)
    /\ profiles' = ReadProfiles(Get(retry_file))
    /\ results' = [success |-> <<>>, retry |-> <<>>]
    /\ files_before' = [output |-> output_file, retry |-> retry_file]
    /\ new_retry_file' = NULL
    /\ pidx' = 1
    /\ ppc' = "retry"
    /\ UNCHANGED <<authors, output_file, retry_file>>
    /\ UNCHANGED <<engine_vars, ingestor_vars, scratch_vars, models_vars>>

\* lines 200-248: one turn of the loop of retry_failed_profiles
RetryOne ==
    /\ ppc = "retry"
    /\ pidx <= Len(profiles)
    /\ \E outcome \in ScrapeOutcomes :
         LET R == RetryStep([results |-> results, output |-> output_file,
                             retry |-> new_retry_file], profiles[pidx], outcome)
         IN  /\ results' = R.results
             /\ output_file' = R.output
             /\ new_retry_file' = R.retry
    /\ pidx' = pidx + 1
    /\ UNCHANGED <<authors, ppc, profiles, retry_file, files_before>>
    /\ UNCHANGED <<engine_vars, ingestor_vars, scratch_vars, models_vars>>

\* lines 250-257: retry_failed_profiles returns results
RetryReturn ==
    /\ ppc = "retry"
    /\ pidx > Len(profiles)
    /\ ppc' = "retried"
    /\ UNCHANGED <<authors, pidx, profiles, results, output_file, retry_file,
                   new_retry_file, files_before>>
    /\ UNCHANGED <<engine_vars, ingestor_vars, scratch_vars, models_vars>>

ProfilesNext ==
    \/ ScrapeOne
    \/ ScrapeReturn
    \/ RetryStart
    \/ RetryOne
    \/ RetryReturn

ProfilesSpec == ProfilesInit /\ [][ProfilesNext]_vars

-----------------------------------------------------------------------------
(* get_hf_models of l2-collecting-data/get_hf_models.py.                   *)
(*                                                                         *)
(* The models that match the filters are ranked 1..available by the sort   *)
(* order; a batch is the range of ranks it holds, and the result is the    *)
(* sequence of the batches that models.extend added.                       *)

BatchLimit == 1000   \* line 88: batch_size = min(1000, n)
MaxBatches == 2      \* n and the number of matching models reach
                     \* MaxBatches * BatchLimit + 1
MaxRequests == MaxBatches + 2   \* requests followed in one call

\* the values of n and of the number of matching models: around every
\* multiple of the batch limit
Sizes ==
    { k * BatchLimit + d : k \in 0..MaxBatches, d \in {-1, 0, 1} } \cap Nat

EmptyBatch == [from |-> 1, to |-> 0]

\* len(batch)
BatchLen(batch) == IF batch.to < batch.from THEN 0 ELSE batch.to - batch.from + 1

Min2(a, b) == IF a <= b THEN a ELSE b

\* lines 63-82 and 97: the parameters of a request; offset is not one of
\* them
RequestParams(current_limit) ==
    [sort |-> "downloads", direction |-> -1, limit |-> current_limit]

\* GET /api/models: the first params.limit models of the listing that the
\* parameters select
Served(params, matching) ==
    [from |-> 1, to |-> Min2(params.limit, matching)]

\* what a request can meet: the listing, a status other than 200, an empty
\* list, a list shorter or longer than the limit, an exception of the
\* session
ResponseKinds == {"ok", "status", "empty", "short", "over", "raises"}

\* response.json() of a request that was answered with status 200
BatchOf(kind, params, matching) ==
    CASE kind = "ok" -> Served(params, matching)
      [] kind = "empty" -> EmptyBatch
      [] kind = "short" -> [from |-> 1, to |-> params.limit - 1]
      [] kind = "over" -> [from |-> 1, to |-> params.limit + 1]

\* remaining left as it was
MutRemainingUnchanged(rem, batch) == rem

\* line 114: remaining -= len(batch)
UpdateRemaining(rem, batch) == rem - BatchLen(batch)

\* lines 96-122: one turn of the while loop, on the state S of models,
\* remaining and offset; `go` tells whether the loop condition is
\* evaluated again
FetchBatch(S, kind, matching) ==
    LET batch_size == Min2(BatchLimit, S.n)
        current_limit == Min2(batch_size, S.remaining)
        params == RequestParams(current_limit)
    IN  IF kind = "status" THEN [S EXCEPT !.go = FALSE]
        ELSE LET batch == BatchOf(kind, params, matching)
             IN  IF BatchLen(batch) = 0 THEN [S EXCEPT !.go = FALSE]
                 ELSE [S EXCEPT !.models = Append(@, batch),
                                !.remaining = UpdateRemaining(@, batch),
                                !.offset = @ + BatchLen(batch),
                                !.go = ~(BatchLen(batch) < current_limit)]

\* lines 85-88: get_hf_models(n) has set up its loop
ModelsInit ==
    /\ n_arg \in Sizes
    /\ available \in Sizes
    /\ remaining = n_arg
    /\ offset = 0
    /\ models = <<>>
    /\ responses = <<>>
    /\ mpc = "loop"
    /\ models_file = NULL
    /\ EngineIdle
    /\ IngestorIdle
    /\ ScratchIdle
    /\ ProfilesIdle

\* lines 94-122: a request is made and answered
Request ==
    /\ mpc = "loop"
    /\ remaining > 0
    /\ Len(responses) < MaxRequests
    /\ \E kind \in ResponseKinds \ {"raises"} :
         /\ kind = "short" => Min2(Min2(BatchLimit, n_arg), remaining) >= 2
         /\ LET R == FetchBatch([n |-> n_arg, models |-> models,
                                 remaining |-> remaining, offset |-> offset,
                                 go |-> TRUE], kind, available)
            IN  /\ models' = R.models
                /\ remaining' = R.remaining
                /\ offset' = R.offset
                /\ mpc' = IF R.go THEN "loop" ELSE "save"
         /\ responses' = Append(responses, kind)
    /\ UNCHANGED <<n_arg, available, models_file>>
    /\ UNCHANGED <<engine_vars, ingestor_vars, scratch_vars, profile_vars>>

\* line 101: client.get raises (no connection, retries exhausted) and the
\* exception leaves get_hf_models
RequestRaises ==
    /\ mpc = "loop"
    /\ remaining > 0
    /\ Len(responses) < MaxRequests
    /\ responses' = Append(responses, "raises")
    /\ mpc' = "raised"
    /\ UNCHANGED <<n_arg, available, remaining, offset, models, models_file>>
    /\ UNCHANGED <<engine_vars, ingestor_vars, scratch_vars, profile_vars>>

\* line 94: the loop condition remaining > 0 is false
LoopEnds ==
    /\ mpc = "loop"
    /\ remaining <= 0
    /\ mpc' = "save"
    /\ UNCHANGED <<n_arg, available, remaining, offset, models, responses,
                   models_file>>
    /\ UNCHANGED <<engine_vars, ingestor_vars, scratch_vars, profile_vars>>

\* lines 124-132: the models are written to the JSONL file and returned
SaveModels ==
    /\ mpc = "save"
    /\ models_file' = Val(models)
    /\ mpc' = "done"
    /\ UNCHANGED <<n_arg, available, remaining, offset, models, responses>>
    /\ UNCHANGED <<engine_vars, ingestor_vars, scratch_vars, profile_vars>>

ModelsNext ==
    \/ Request
    \/ RequestRaises
    \/ LoopEnds
    \/ SaveModels

ModelsSpec == ModelsInit /\ [][ModelsNext]_vars

\* the call is not suspended for ever between two of its steps
ModelsLive == ModelsSpec /\ WF_vars(ModelsNext)

-----------------------------------------------------------------------------
(* Vocabulary of the properties.                                           *)

\* the delta table exists
DeltasBuilt == pc \in {"save_model_output", "aggregate_by_author", "save_output", "done"}

\* the aggregate table exists
AggregatesBuilt == pc \in {"save_output", "done"}

\* the records of the delta table D that belong to entity id, by number
RecordsOf(D, id) == { i \in 1..Len(D) : D[i].id = id }

\* the records of entity D[j].id on its greatest date before that of D[j]:
\* the previous observed date of the entity
PreviousDateRecords(D, j) ==
    { i \in RecordsOf(D, D[j].id) :
        /\ D[i].snapshot_date < D[j].snapshot_date
        /\ \A k \in RecordsOf(D, D[j].id) :
             D[k].snapshot_date < D[j].snapshot_date
                => D[k].snapshot_date <= D[i].snapshot_date }

\* D[j] is a record of the first observed date of its entity
OnFirstDate(D, j) ==
    \A k \in RecordsOf(D, D[j].id) : D[j].snapshot_date <= D[k].snapshot_date

\* the other records of the entity of D[j] that carry the date of D[j]
SameDateRecords(D, j) ==
    { i \in RecordsOf(D, D[j].id) \ {j} : D[i].snapshot_date = D[j].snapshot_date }

\* the tracked counters: raw column, delta column, total and cumulative column
Tracked ==
    { <<"downloadsAllTime", "daily_downloads", "total_daily_downloads",
        "total_cumulative_downloads">>,
      <<"likes", "daily_likes", "total_daily_likes", "total_cumulative_likes">>,
      <<"trendingScore", "daily_trending_score", "total_daily_trending_score",
        "total_cumulative_trending_score">>,
      <<"downloads30", "daily_downloads30", "total_daily_downloads30",
        "total_cumulative_downloads30">> }

\* the delta records of an author on a date
GroupOf(D, author, date) ==
    SelectSeq(D, LAMBDA r : r.author = author /\ r.snapshot_date = date)

\* the values of a sequence that are neither NULL nor negative
ValidOnly(s) == SelectSeq(s, LAMBDA v : ~IsNull(v) /\ Get(v) >= 0)

HasSlash(id) == \E i \in 1..Len(Chars(id)) : Chars(id)[i] = Slash

\* a is the text before the first '/' of id
IsPrefixAuthor(a, id) ==
    /\ Len(Chars(a)) < Len(Chars(id))
    /\ SubSeq(Chars(id), 1, Len(Chars(a))) = Chars(a)
    /\ Chars(id)[Len(Chars(a)) + 1] = Slash
    /\ ~HasSlash(a)

\* the naming convention of snapshots: the table name, an 8-digit date, a
\* 7-hex-character version id and the extension
MatchesConvention(name) ==
    LET n == Chars(name)
    IN  \E ext \in {ParquetExt, CsvExt} :
            /\ Len(n) = 23 + Len(ext)
            /\ SubSeq(n, 1, 7) = ModelsPrefix
            /\ \A k \in 8..15 : n[k] \in Digits
            /\ n[16] = "-"
            /\ \A k \in 17..23 : n[k] \in HexDigits
            /\ SubSeq(n, 24, Len(n)) = ext

\* no table and no file has been produced
NothingProduced ==
    /\ all_snapshots = <<>>
    /\ daily_model_downloads = <<>>
    /\ author_daily_downloads = <<>>
    /\ model_file = NULL
    /\ author_file = NULL

-----------------------------------------------------------------------------
(* Properties of the delta table.                                          *)

\* C1: in the delta table, every record of an entity on a date d after the
\* first observed date of the entity has daily_downloads equal to its
\* downloadsAllTime minus the downloadsAllTime of the entity on d_prev, the
\* greatest observed date of the entity before d (read in favour of the
\* claim: minus that of some record of d_prev).
C1_DeltaFromPreviousObservedDate ==
    DeltasBuilt =>
        \A j \in 1..Len(daily_model_downloads) :
            LET D == daily_model_downloads
            IN  PreviousDateRecords(D, j) # {} =>
                    \E i \in PreviousDateRecords(D, j) :
                        D[j].daily_downloads
                            = Val(Get(D[j].downloadsAllTime) - Get(D[i].downloadsAllTime))

\* The statement of C1 for the entities that have one record per date: there
\* the delta is taken from the previous observed date, whatever calendar
\* days lie between the two.
DeltaFromPreviousObservedDateWhenDatesDiffer ==
    DeltasBuilt =>
        \A j \in 1..Len(daily_model_downloads) :
            LET D == daily_model_downloads
            IN  (\A k \in RecordsOf(D, D[j].id) : SameDateRecords(D, k) = {}) =>
                    \A i \in PreviousDateRecords(D, j) :
                        D[j].daily_downloads
                            = Val(Get(D[j].downloadsAllTime) - Get(D[i].downloadsAllTime))

\* C2: every record of an entity on its first observed date has a NULL
\* delta for every counter.
C2_FirstObservationHasNullDeltas ==
    DeltasBuilt =>
        \A j \in 1..Len(daily_model_downloads) :
            LET D == daily_model_downloads
            IN  OnFirstDate(D, j) =>
                    \A c \in Tracked : IsNull(D[j][c[2]])

\* the records a window can place just before D[j]: those of the previous
\* observed date and those sharing the date of D[j]
PredecessorCandidates(D, j) == PreviousDateRecords(D, j) \cup SameDateRecords(D, j)

\* counter c of D[j] is lower than in every record that can precede D[j]
Decreased(D, j, c) ==
    /\ PreviousDateRecords(D, j) # {}
    /\ ~IsNull(D[j][c[1]])
    /\ \A i \in PredecessorCandidates(D, j) :
         ~IsNull(D[i][c[1]]) /\ Get(D[i][c[1]]) > Get(D[j][c[1]])

\* C3: a negative delta is no error and is not altered at entity grain:
\* when a counter of an entity is lower on a date than on the previous
\* observed date, the run goes on without error, every loaded row keeps
\* its record, the record of the later date holds the negative difference
\* itself, and the file written at model_output_path holds the same records.
C3_NegativeDeltaPassedThrough ==
    LET D == daily_model_downloads
    IN  /\ DeltasBuilt =>
            /\ error = NoError
            /\ Len(D) = Len(all_snapshots)
            /\ \A j \in 1..Len(D) : \A c \in Tracked :
                 Decreased(D, j, c) =>
                    /\ ~IsNull(D[j][c[2]])
                    /\ Get(D[j][c[2]]) < 0
                    /\ \E i \in PredecessorCandidates(D, j) :
                         Get(D[j][c[2]]) = Get(D[j][c[1]]) - Get(D[i][c[1]])
        /\ (model_output_path /\ pc \in {"aggregate_by_author", "save_output", "done"})
              => model_file = Val(D)

\* a finished run whose model-level file holds a negative daily_downloads
\* for an entity with one record per date
C3_Witness ==
    /\ pc = "done"
    /\ ~IsNull(model_file)
    /\ \E j \in 1..Len(Get(model_file)) :
         LET D == Get(model_file)
         IN  /\ Decreased(D, j, <<"downloadsAllTime", "daily_downloads">>)
             /\ SameDateRecords(D, j) = {}
             /\ D[j].daily_downloads = Val(0 - 1)

-----------------------------------------------------------------------------
(* Properties of the aggregate table.                                      *)

\* C4: for every tracked counter X and every aggregate record,
\* total_daily_X is the sum of the daily_X of the delta records of that
\* author and date that are neither NULL nor negative in daily_X itself
\* (0 or NULL when there is none).
C4_TotalIsSumOfOwnValidDeltas ==
    AggregatesBuilt =>
        \A k \in 1..Len(author_daily_downloads) : \A c \in Tracked :
            LET a == author_daily_downloads[k]
                g == GroupOf(daily_model_downloads, a.author, a.snapshot_date)
                valid == ValidOnly(Col(g, c[2]))
            IN  \/ a[c[3]] = SqlSum(valid)
                \/ valid = <<>> /\ a[c[3]] = Val(0)

\* C5: in every aggregate record, n_models is the number of distinct ids of
\* that author in the delta table on that date, whatever their deltas.
C5_EntityCountIgnoresDeltaValidity ==
    AggregatesBuilt =>
        \A k \in 1..Len(author_daily_downloads) :
            LET a == author_daily_downloads[k]
                g == GroupOf(daily_model_downloads, a.author, a.snapshot_date)
            IN  a.n_models = Cardinality({ g[i].id : i \in 1..Len(g) })

\* C6: in every aggregate record, total_cumulative_X is the sum of the raw
\* counter X over all delta records of that author and date, whatever
\* their deltas.
C6_CumulativeTotalIsUnrestricted ==
    AggregatesBuilt =>
        \A k \in 1..Len(author_daily_downloads) : \A c \in Tracked :
            LET a == author_daily_downloads[k]
                g == GroupOf(daily_model_downloads, a.author, a.snapshot_date)
            IN  a[c[4]] = SqlSum(Col(g, c[1]))

\* C7: the aggregate table holds exactly one record for every (author,
\* snapshot_date) that occurs in the delta table.
C7_OneAggregatePerAuthorAndDate ==
    AggregatesBuilt =>
        \A j \in 1..Len(daily_model_downloads) :
            Cardinality({ k \in 1..Len(author_daily_downloads) :
                /\ author_daily_downloads[k].author = daily_model_downloads[j].author
                /\ author_daily_downloads[k].snapshot_date
                       = daily_model_downloads[j].snapshot_date }) = 1

-----------------------------------------------------------------------------
(* Properties of loading.                                                  *)

KeptWithAuthor(a, id) ==
    /\ a # ""
    /\ \/ IsPrefixAuthor(a, id)
       \/ ~HasSlash(id) /\ a = id

C9_UnconventionalNameAborts ==
    (\E n \in DOMAIN directory : GlobMatches(n) /\ ~MatchesConvention(n)) =>
        /\ pc \in {"file_discovery", "load_data", "error"}
        /\ NothingProduced

-----------------------------------------------------------------------------
(* Properties of the ingestor.                                             *)

\* a run has returned
Returned == ipc = "returned"

\* the run started from an empty store
FromEmptyStore == DOMAIN store_at_start = {}

\* the version of the remote history with a commit id
CommitOf(id) == remote[CHOOSE i \in 1..Len(remote) : remote[i].commit_id = id]

\* the content of a fetched file p = <<commit id, format>>
ContentOf(p) == Get(CommitOf(p[1]).files[p[2]])

\* the snapshot file of a fetched file
SnapshotOf(p) == OutputFilename(CommitOf(p[1]), p[2])

\* the fetched file p is stored as a snapshot
IsStored(p) ==
    /\ SnapshotOf(p) \in DOMAIN store
    /\ store[SnapshotOf(p)].content = ContentOf(p)

\* the files fetched in the run that have content k
FetchedWith(k) == { p \in hub_downloads : ContentOf(p) = k }

\* the contents fetched in the run
FetchedContents == { ContentOf(p) : p \in hub_downloads }

\* C11: when a run that started from an empty store returns, of the
\* versions fetched with one and the same content exactly one is stored as
\* a snapshot file, and every other one is counted in skipped_no_change (a
\* version whose download raised has no content to compare and is left
\* aside)
C11_IdenticalContentStoredOnce ==
    (Returned /\ FromEmptyStore) =>
        /\ \A k \in FetchedContents :
             Cardinality(FetchedWith(k)) >= 2 =>
                Cardinality({ p \in FetchedWith(k) : IsStored(p) }) = 1
        /\ counters.skipped_no_change =
               Cardinality(hub_downloads) - Cardinality(FetchedContents)

\* the same when no copy into the store raised in the run
IdenticalContentStoredOnceWhenCopiesSucceed ==
    (Returned /\ FromEmptyStore
       /\ \A p \in hub_downloads : ComputeFileHash(ContentOf(p)) \in seen_hashes =>
             \E q \in FetchedWith(ContentOf(p)) : IsStored(q)) =>
        /\ \A k \in FetchedContents :
             Cardinality(FetchedWith(k)) >= 2 =>
                Cardinality({ p \in FetchedWith(k) : IsStored(p) }) = 1
        /\ counters.skipped_no_change =
               Cardinality(hub_downloads) - Cardinality(FetchedContents)

\* C12: at every moment of every sequence of runs, no two snapshot files of
\* the store have the same content hash
C12_NoTwoSnapshotsShareHash ==
    \A n1 \in DOMAIN store : \A n2 \in DOMAIN store :
        n1 # n2 =>
            ComputeFileHash(store[n1].content) # ComputeFileHash(store[n2].content)

\* the run is a second run with the inputs of the run before, which
\* returned, against an unchanged remote history
SecondRun ==
    /\ ~IsNull(previous_run)
    /\ Get(previous_run).completed
    /\ Get(previous_run).days_back = days_back
    /\ Get(previous_run).commits = commits

\* the formats in which the version of a fetched file has a file on disk
\* at the start of the run
OnDiskAtStart(p) ==
    { f \in {"parquet", "csv"} :
        OutputFilename(CommitOf(p[1]), f) \in DOMAIN store_at_start }

\* the run created no file, returns an empty list and fetched no version
\* that had its snapshot on disk
NothingNew ==
    /\ store = store_at_start
    /\ downloaded_files = <<>>
    /\ \A p \in hub_downloads : OnDiskAtStart(p) = {}

C14_StoreIsAppendOnly ==
    [][\A n \in DOMAIN store : n \in DOMAIN store' /\ store'[n] = store[n]]_vars

\* a later run has added a snapshot file next to one written by an earlier
\* run
C14_Witness ==
    /\ \E n \in DOMAIN store : store[n].mtime < run
    /\ \E n \in DOMAIN store : store[n].mtime = run
    /\ \E n \in DOMAIN store_at_start : store[n] = store_at_start[n]

\* the versions the loop has dealt with, by their place in relevant_commits
Processed == 1..(position - 1)

\* the version at place i has a snapshot on disk from before the run
OnDiskBefore(i) ==
    \E f \in {"parquet", "csv"} :
        OutputFilename(relevant_commits[i], f) \in DOMAIN store_at_start

\* the download of the version at place i failed: it was not on disk and no
\* format of it was fetched (network error, or no file at the revision)
DownloadFailed(i) ==
    /\ ~OnDiskBefore(i)
    /\ \A f \in {"parquet", "csv"} :
          <<relevant_commits[i].commit_id, f>> \notin hub_downloads

\* the version at place i was stored by this run
StoredNow(i) ==
    \E f \in {"parquet", "csv"} :
        /\ OutputFilename(relevant_commits[i], f) \in DOMAIN store
        /\ OutputFilename(relevant_commits[i], f) \notin DOMAIN store_at_start
        /\ store[OutputFilename(relevant_commits[i], f)].content >= 0

CountedVersions ==
    counters.successful_downloads + counters.skipped_existing
      + counters.skipped_no_change + counters.skipped_no_file

\* C15: a failed download never aborts the run: the loop never ends with an
\* exception, every version dealt with is counted once, a version whose
\* download failed is counted in skipped_no_file, and the run returns only
\* after the last version of the list
C15_DownloadFailureDoesNotAbort ==
    /\ ipc = "raised" => position = 0
    /\ ipc \in {"loop", "returned"} =>
          /\ CountedVersions = position - 1
          /\ counters.skipped_no_file >=
                Cardinality({ i \in Processed : DownloadFailed(i) })
    /\ Returned => position = Len(relevant_commits) + 1

\* a run has returned in which the download of a version was lost to a
\* network error and a version later in the list was stored
C15_Witness ==
    /\ Returned
    /\ \E i \in Processed : \E j \in Processed :
          /\ i < j
          /\ DownloadFailed(i)
          /\ relevant_commits[i].commit_id \in failures
          /\ StoredNow(j)

\* the place of a version in the remote history (1 is the oldest)
AgeRank(id) == CHOOSE i \in 1..Len(remote) : remote[i].commit_id = id

\* C20: when a run returns, the versions were processed oldest first
\* (relevant_commits, which the loop follows, is in the order of the
\* history), and of the versions fetched with one content the one stored is
\* the earliest
C20_OldestVersionFirst ==
    Returned =>
        /\ \A i \in 1..Len(relevant_commits) : \A j \in 1..Len(relevant_commits) :
              i < j => AgeRank(relevant_commits[i].commit_id)
                         < AgeRank(relevant_commits[j].commit_id)
        /\ \A p \in hub_downloads : \A q \in hub_downloads :
              (IsStored(p) /\ ContentOf(q) = ContentOf(p)) =>
                  AgeRank(p[1]) <= AgeRank(q[1])

-----------------------------------------------------------------------------
(* Properties of failed runs of the delta engine.                          *)

\* C16: after a run of process_historical_data that failed or was stopped,
\* neither the per-model delta file nor the author aggregate file exists
C16_NoOutputAfterFailedRun ==
    pc = "error" => (IsNull(model_file) /\ IsNull(author_file))

-----------------------------------------------------------------------------
(* Properties of the delta engine on files of equal date.                  *)

\* the deltas have been computed
DeltasComputed ==
    pc \in {"save_model_output", "aggregate_by_author", "save_output", "done"}

\* two of the files that are loaded have the same date in their names
DuplicateDates(files) ==
    \E i, j \in 1..Len(Dated(files)) :
        /\ i # j
        /\ extract_date_from_filename(Dated(files)[i])
             = extract_date_from_filename(Dated(files)[j])

\* the rows of a table, each with the number of times it occurs
RowBag(t) ==
    [r \in { t[i] : i \in 1..Len(t) } |->
        Cardinality({ i \in 1..Len(t) : t[i] = r })]

\* C18: when two snapshot files of the input map to the same snapshot_date
\* the run ends in an error and computes no deltas: no delta is ever taken
\* between two rows of one id that carry the same date
C18_DuplicateDatesAreAnError ==
    /\ (DuplicateDates(parquet_files) /\ pc \notin {"file_discovery", "load_data"})
          => pc = "error"
    /\ DeltasComputed => TiedIds(all_snapshots) = {}

\* C17: the delta table and the aggregate table of a run are those of every
\* other run on the same snapshot files (same rows, same values), whatever
\* the order in which the engine takes rows of equal date
C17_SameTablesInEveryRun ==
    DeltasComputed =>
        \A rev \in SUBSET TiedIds(all_snapshots) :
            /\ RowBag(DailyModelDownloads(all_snapshots, rev))
                 = RowBag(daily_model_downloads)
            /\ RowBag(AuthorDailyDownloads(DailyModelDownloads(all_snapshots, rev)))
                 = RowBag(AuthorDailyDownloads(daily_model_downloads))

\* without files of equal date the tables of a run are determined by the
\* snapshot files
SameTablesInEveryRunOfDistinctDates ==
    (DeltasComputed /\ ~DuplicateDates(parquet_files)) =>
        /\ TiedIds(all_snapshots) = {}
        /\ daily_model_downloads = DailyModelDownloads(all_snapshots, {})

-----------------------------------------------------------------------------
(* Properties of the scratch engines.                                      *)

\* the three engines have finished on the same snapshot rows
AllAnalyzed ==
    ~IsNull(pandas_result) /\ ~IsNull(postgres_result) /\ ~IsNull(duckdb_result)

\* the (author, snapshot_date, total_daily_downloads) triples of a result,
\* the date as the day it names and the total as a number
PandasTotals ==
    { <<r.author, CastDate(r.snapshot_date), r.total_daily_downloads>> :
        r \in { Get(pandas_result)[i] : i \in 1..Len(Get(pandas_result)) } }

PostgresTotals ==
    { <<r.author, r.snapshot_date, Get(r.total_daily_downloads)>> :
        r \in { Get(postgres_result)[i] : i \in 1..Len(Get(postgres_result)) } }

DuckdbTotals ==
    { <<r.author, r.snapshot_date, Get(r.total_daily_downloads)>> :
        r \in { Get(duckdb_result)[i] : i \in 1..Len(Get(duckdb_result)) } }

\* C19: on the same snapshot rows the DuckDB, pandas and PostgreSQL engines
\* give the same set of (author, snapshot_date) pairs and the same
\* total_daily_downloads for every pair
C19_EnginesAgree ==
    AllAnalyzed =>
        /\ PandasTotals = PostgresTotals
        /\ PostgresTotals = DuckdbTotals

\* the pandas and the PostgreSQL engine agree with each other
PandasAgreesWithPostgres ==
    (~IsNull(pandas_result) /\ ~IsNull(postgres_result)) =>
        PandasTotals = PostgresTotals

-----------------------------------------------------------------------------
(* Properties of the ingestor: formats, listing, counters, seen hashes.    *)

\* the formats in which a version has a snapshot file in the store
StoredFormats(commit) ==
    { f \in {"parquet", "csv"} : OutputFilename(commit, f) \in DOMAIN store }

\* C21: the formats are tried in the order parquet, csv and the first that
\* exists at the version is accepted: the store holds at most one snapshot
\* file of a version, and a csv snapshot only of a version that has no
\* parquet file
C21_FirstExistingFormatIsStored ==
    \A i \in 1..Len(remote) :
        /\ Cardinality(StoredFormats(remote[i])) <= 1
        /\ "csv" \in StoredFormats(remote[i]) => IsNull(remote[i].files["parquet"])

\* the same as long as no attempt was failed by the network or the disk
FirstExistingFormatIsStoredWithoutFaults ==
    faults = 0 =>
        \A i \in 1..Len(remote) :
            /\ Cardinality(StoredFormats(remote[i])) <= 1
            /\ "csv" \in StoredFormats(remote[i]) => IsNull(remote[i].files["parquet"])

\* the commits of the capped listing a run that fell back works on
FallbackCommits == ApiListing(SubSeq(remote, 1, head), days_back)

\* C22: when git clone / git log is unavailable or fails, for any reason,
\* the run falls back to the capped listing of the API and goes on with its
\* commits; a run is ended by the listing only when the fallback listing
\* fails as well
C22_ListingFallsBackToApi ==
    /\ listing \in {"git_failed", "git_unavailable"} => ipc # "raised"
    /\ (ipc = "raised" /\ position = 0) => listing = "api_failed"
    /\ (listing = "api" /\ ipc = "loop" /\ position = 1) =>
          /\ commits = FallbackCommits
          /\ relevant_commits = SelectSeq(FallbackCommits, IsRelevant)

\* the same when git fails with an exit status (CalledProcessError)
ListingFallsBackAfterExitStatus ==
    /\ listing # "git_failed"
    /\ (listing = "api" /\ ipc = "loop" /\ position = 1) =>
          /\ commits = FallbackCommits
          /\ relevant_commits = SelectSeq(FallbackCommits, IsRelevant)

\* C23: when a run returns, each relevant version has been counted in
\* exactly one of the four outcomes (the four counters add up to the number
\* of relevant versions), and the returned list has successful_downloads
\* paths, each of a different file that this run created
C23_CountersPartitionRelevantVersions ==
    Returned =>
        /\ CountedVersions = Len(relevant_commits)
        /\ Len(downloaded_files) = counters.successful_downloads
        /\ \A i \in 1..Len(downloaded_files) :
              /\ downloaded_files[i] \in DOMAIN store
              /\ downloaded_files[i] \notin DOMAIN store_at_start
              /\ store[downloaded_files[i]].mtime = run
              /\ \A j \in 1..Len(downloaded_files) :
                    downloaded_files[j] = downloaded_files[i] => j = i

\* a run over two relevant versions has returned, one stored and returned,
\* the other without a file at its revision or lost to an error
C23_Witness ==
    /\ Returned
    /\ Len(relevant_commits) = 2
    /\ counters.successful_downloads = 1
    /\ counters.skipped_no_file = 1
    /\ Len(downloaded_files) = 1

\* C30: at every point of a run every hash in seen_hashes is the content
\* hash of a snapshot file present in the store
C30_SeenHashesAreStored ==
    \A h \in seen_hashes :
        \E n \in DOMAIN store : ComputeFileHash(store[n].content) = h

\* the same as long as no attempt was failed by the network or the disk
SeenHashesAreStoredWithoutFaults ==
    faults = 0 =>
        \A h \in seen_hashes :
            \E n \in DOMAIN store : ComputeFileHash(store[n].content) = h

-----------------------------------------------------------------------------
(* The files of the ingestor as the input of the delta engine.             *)

\* the files process_historical_data loads from a directory
LoadedFrom(dir) ==
    { Dated(GlobParquet(dir))[i] : i \in 1..Len(Dated(GlobParquet(dir))) }

\* process_historical_data on the store loads the snapshot of version
\* commit in format f under the date of the version
ConsumedWithItsDate(commit, f) ==
    /\ OutputFilename(commit, f) \in LoadedFrom(store)
    /\ CastDate(Get(extract_date_from_filename(OutputFilename(commit, f))))
         = DateNum(commit.created_at)

\* C28: every snapshot file the ingestor stores, parquet or csv, is in the
\* input set of process_historical_data, which derives from its name the
\* calendar date the ingestor encoded
C28_StoredSnapshotsAreConsumed ==
    \A i \in 1..Len(remote) : \A f \in {"parquet", "csv"} :
        OutputFilename(remote[i], f) \in DOMAIN store =>
            ConsumedWithItsDate(remote[i], f)

\* the same for the snapshots in the parquet format
StoredParquetSnapshotsAreConsumed ==
    \A i \in 1..Len(remote) :
        OutputFilename(remote[i], "parquet") \in DOMAIN store =>
            ConsumedWithItsDate(remote[i], "parquet")

-----------------------------------------------------------------------------
(* The deltas of one model over its observed dates.                        *)

\* the rows of the delta table of one id
DeltaRowsOf(id) == SelectSeq(daily_model_downloads, LAMBDA r : r.id = id)

\* the id has one row per date and at least two dates
ObservedOnSeveralDates(id) ==
    /\ Len(DeltaRowsOf(id)) >= 2
    /\ \A i \in 1..Len(DeltaRowsOf(id)) : \A j \in 1..Len(DeltaRowsOf(id)) :
          i # j => DeltaRowsOf(id)[i].snapshot_date # DeltaRowsOf(id)[j].snapshot_date
    /\ \A i \in 1..Len(DeltaRowsOf(id)) : ~IsNull(DeltaRowsOf(id)[i].downloadsAllTime)

\* the row of the id with the earliest, the latest date
FirstObserved(id) ==
    CHOOSE i \in 1..Len(DeltaRowsOf(id)) :
        \A j \in 1..Len(DeltaRowsOf(id)) :
            DeltaRowsOf(id)[i].snapshot_date <= DeltaRowsOf(id)[j].snapshot_date

LastObserved(id) ==
    CHOOSE i \in 1..Len(DeltaRowsOf(id)) :
        \A j \in 1..Len(DeltaRowsOf(id)) :
            DeltaRowsOf(id)[i].snapshot_date >= DeltaRowsOf(id)[j].snapshot_date

\* the daily_downloads of the rows of the id after its first date
LaterDeltas(id) ==
    LET later == SelectSeq(DeltaRowsOf(id),
                           LAMBDA r : r # DeltaRowsOf(id)[FirstObserved(id)])
    IN  [i \in 1..Len(later) |-> Get(later[i].daily_downloads)]

\* C29: the deltas of a model telescope: for an id observed on dates
\* d1 < ... < dk, one row per date and non-null counters, the sum of its
\* daily_downloads over d2..dk is downloadsAllTime[dk] - downloadsAllTime[d1],
\* whichever dates are missing in between
C29_DeltasTelescope ==
    DeltasComputed =>
        \A id \in { daily_model_downloads[i].id : i \in 1..Len(daily_model_downloads) } :
            ObservedOnSeveralDates(id) =>
                SumSeq(LaterDeltas(id))
                  = Get(DeltaRowsOf(id)[LastObserved(id)].downloadsAllTime)
                      - Get(DeltaRowsOf(id)[FirstObserved(id)].downloadsAllTime)

\* a model observed on 2025-01-01, 2025-01-02 and 2025-01-04 (no snapshot
\* of 2025-01-03), its counter falling and then rising
C29_Witness ==
    /\ pc = "done"
    /\ ObservedOnSeveralDates("a/x")
    /\ Len(DeltaRowsOf("a/x")) = 3
    /\ { DeltaRowsOf("a/x")[i].snapshot_date : i \in 1..3 }
          = {20250101, 20250102, 20250104}
    /\ \E i \in 1..3 : DeltaRowsOf("a/x")[i].daily_downloads = Val(-1)
    /\ \E i \in 1..3 : DeltaRowsOf("a/x")[i].daily_downloads = Val(1)

-----------------------------------------------------------------------------
(* Profile scraping                                                        *)

\* the lines of a retry file, none while the file does not exist
LinesOf(file) == IF IsNull(file) THEN <<>> ELSE FileLines(Get(file))

\* how many lines of the retry file name the author
RetryLines(file, author) ==
    Cardinality({ i \in 1..Len(LinesOf(file)) : LinesOf(file)[i] = author \o "\n" })

\* how many of the output lines from..Len(output_file) are the author's
OutputLines(from, author) ==
    Cardinality({ i \in from..Len(output_file) : output_file[i].profile = author })

Listed(author, list) == \E i \in 1..Len(list) : list[i] = author

C25_RetriedProfilesAppendedOrListedAgain ==
    ppc \in {"retry", "retried"} =>
        LET before == Len(files_before.output)
        IN  /\ ppc = "retried" => pidx = Len(profiles) + 1
            /\ \A i \in 1..Len(LinesOf(files_before.retry)) :
                 Listed(Strip(LinesOf(files_before.retry)[i]), profiles)
            /\ \A i \in 1..(pidx - 1) :
                 \/ /\ OutputLines(before + 1, profiles[i]) = 1
                    /\ RetryLines(new_retry_file, profiles[i]) = 0
                 \/ /\ OutputLines(before + 1, profiles[i]) = 0
                    /\ RetryLines(new_retry_file, profiles[i]) = 1
            /\ Len(output_file) >= before
            /\ SubSeq(output_file, 1, before) = files_before.output
            /\ retry_file = files_before.retry

\* of three authors the first and the third failed and the second was
\* written; on the retry the first is written after the line of the second
\* and the third fails again
C25_Witness ==
    /\ ppc = "retried"
    /\ files_before.retry = Val("Qwen\nmeta-llama\n")
    /\ Len(files_before.output) = 1
    /\ Len(output_file) = 2
    /\ output_file[1].profile = "google"
    /\ output_file[2].profile = "Qwen"
    /\ new_retry_file = Val("meta-llama\n")
    /\ results = [success |-> <<"Qwen">>, retry |-> <<"meta-llama">>]

-----------------------------------------------------------------------------
(* Model listing                                                           *)

\* how many models the result holds
ModelsFetched ==
    SumSeq([i \in 1..Len(models) |-> BatchLen(models[i])])

\* every request was answered by the API from its listing
AnsweredFromListing == \A i \in 1..Len(responses) : responses[i] = "ok"

\* C26: when get_hf_models(n) has returned and every request was answered
\* from the listing, the result has at most n models, every batch after the
\* first starts at the rank after the end of the batch before it (so that no
\* model is in the result twice), and the result has fewer than n models
\* only when fewer than n models match
C26_BatchesContinue ==
    (mpc = "done" /\ AnsweredFromListing) =>
        /\ ModelsFetched <= n_arg
        /\ \A i \in 1..(Len(models) - 1) : models[i + 1].from = models[i].to + 1
        /\ ModelsFetched < n_arg => available < n_arg

\* for n up to the batch limit the single batch is the top n models, or all
\* the matching models when there are fewer
SingleBatchIsTopN ==
    (mpc = "done" /\ AnsweredFromListing /\ n_arg <= BatchLimit) =>
        /\ Len(models) <= 1
        /\ ModelsFetched = Min2(n_arg, available)
        /\ \A i \in 1..Len(models) : models[i].from = 1

\* C27: the batch loop of get_hf_models ends, whatever n and whatever the
\* answers of the API: the call goes on to save the models, or is left by
\* the exception of a request
C27_BatchLoopTerminates == <>(mpc \in {"done", "raised"})

\* n = 2 * BatchLimit + 1: two full batches, then a batch of two models for
\* a limit of one
C27_Witness ==
    /\ mpc = "done"
    /\ n_arg = 2 * BatchLimit + 1
    /\ responses = <<"ok", "ok", "over">>
    /\ remaining = -1
    /\ Len(models) = 3

====
